---- MODULE Spec2Model ----
(***************************************************************************)
(* Model of the streaming ASR session engine of doubao-ime-win:            *)
(*   src/asr/client.rs    AsrClient::start_realtime (handshake, the        *)
(*                        outbound audio pump, the inbound response pump)  *)
(*   src/asr/protocol.rs  build_* envelope builders and parse_response     *)
(* The WebSocket peer, the audio producer and the consumer of the result   *)
(* channel are the environment; every await of the code is one step.       *)
(***************************************************************************)
EXTENDS Integers, Sequences, FiniteSets, TLC

----------------------------------------------------------------------------
(* Bounds of the model                                                     *)

\* frames the audio producer enqueues at most before it closes the channel
MaxFrames == 3
\* capacity of the audio channel handed to start_realtime by the caller
AudioCapacity == 2
\* iterations of the inbound pump's read loop that are explored
MaxPumpReads == 2
\* capacity of the result channel (mpsc::channel(100) in the code), scaled
ResultCapacity == 1
\* entries of a "results" array handed to parse_response
MaxResults == 2
\* calls of OpusEncoder::encode on one encoder
MaxEncodeCalls == 2
\* messages the server sends during Streaming when its stream is fixed
MaxWire == 3
\* key events the system produces for one HotkeyManager
MaxKeyEvents == 4
\* how far the clock runs, in the unit of double_tap_interval
MaxClock == 4

----------------------------------------------------------------------------
(* Program constants                                                       *)

FRAME_DURATION_MS == 20
SILENT_FRAME_LEN == 100
DEFAULT_PACKET_NUMBER == -1
\* encoder.rs: milliseconds of audio in one Opus frame, bytes of one sample
ENCODER_FRAME_MS == 20
BYTES_PER_SAMPLE == 2

\* credentials held by the AsrClient (opaque strings)
Token == "token"
DeviceId == "device-1"
\* Uuid::new_v4() values a call may draw
RequestIds == {"uuid-a", "uuid-b"}
\* current_time_ms() values the outbound pump may sample
StartTimes == {1000, 1013}

----------------------------------------------------------------------------
(* JSON values (serde_json::Value), tagged by their kind                   *)

JNone == [t |-> "none"]
JNull == [t |-> "null"]
JBool(b) == [t |-> "bool", b |-> b]
\* an integer that fits an i64, as four 16-bit limbs, least significant
\* first, in two's complement
JInt(limbs) == [t |-> "int", limbs |-> limbs]
JFloat == [t |-> "float"]
JStr(s) == [t |-> "str", s |-> s]
JArr(a) == [t |-> "arr", a |-> a]
JObj(o) == [t |-> "obj", o |-> o]

Small(n) == JInt(<<n, 0, 0, 0>>)

\* Value::get(key): Some(member) for an object that has the key
Get(v, k) == IF v.t = "obj" THEN (IF k \in DOMAIN v.o THEN v.o[k] ELSE JNone)
             ELSE JNone

\* v.as_bool() == Some(b)
AsBoolIs(v, b) == v.t = "bool" /\ v.b = b

\* (i64 as i32): keeps the low 32 bits, read as a signed number
AsI32(limbs) ==
  IF limbs[2] < 32768 THEN limbs[2] * 65536 + limbs[1]
  ELSE (limbs[2] - 65536) * 65536 + limbs[1]

----------------------------------------------------------------------------
(* protocol.rs: request envelopes                                          *)

SessionConfig(device_id) ==
  [ audio_info |-> [channel |-> 1, format |-> "speech_opus", sample_rate |-> 16000],
    enable_punctuation |-> TRUE,
    enable_speech_rejection |-> FALSE,
    extra |-> [ app_name |-> "com.android.chrome", cell_compress_rate |-> 8,
                did |-> device_id, enable_asr_threepass |-> TRUE,
                enable_asr_twopass |-> TRUE, input_mode |-> "tool" ] ]

NoPayload == [kind |-> "empty"]

build_start_task(rid, token) ==
  [ token |-> token, service_name |-> "ASR", method_name |-> "StartTask",
    payload |-> NoPayload, audio_data |-> <<>>, request_id |-> rid,
    frame_state |-> "Unspecified" ]

\* variant: StartSession is built like a TaskRequest, without the token
build_start_session_NoToken(rid, token, config) ==
  [ token |-> "", service_name |-> "ASR", method_name |-> "StartSession",
    payload |-> [kind |-> "config", config |-> config], audio_data |-> <<>>,
    request_id |-> rid, frame_state |-> "Unspecified" ]

build_start_session(rid, token, config) ==
  [ token |-> token, service_name |-> "ASR", method_name |-> "StartSession",
    payload |-> [kind |-> "config", config |-> config], audio_data |-> <<>>,
    request_id |-> rid, frame_state |-> "Unspecified" ]

\* variant: the closing envelope carries no request id
build_finish_session_NoRequestId(rid, token) ==
  [ token |-> token, service_name |-> "ASR", method_name |-> "FinishSession",
    payload |-> NoPayload, audio_data |-> <<>>, request_id |-> "",
    frame_state |-> "Unspecified" ]

build_finish_session(rid, token) ==
  [ token |-> token, service_name |-> "ASR", method_name |-> "FinishSession",
    payload |-> NoPayload, audio_data |-> <<>>, request_id |-> rid,
    frame_state |-> "Unspecified" ]

build_task_request(rid, audio_data, frame_state, timestamp_ms) ==
  [ token |-> "", service_name |-> "ASR", method_name |-> "TaskRequest",
    payload |-> [kind |-> "metadata", timestamp_ms |-> timestamp_ms],
    audio_data |-> audio_data, request_id |-> rid,
    frame_state |-> frame_state ]

\* vec![0u8; 100]
SilentFrame == [i \in 1..SILENT_FRAME_LEN |-> 0]

----------------------------------------------------------------------------
(* protocol.rs: responses                                                  *)

\* AsrResponse::default()
DefaultResponse ==
  [ response_type |-> "Unknown", text |-> "", is_final |-> FALSE,
    vad_start |-> FALSE, vad_finished |-> FALSE,
    packet_number |-> DEFAULT_PACKET_NUMBER, error_msg |-> "",
    raw_json |-> JNone ]

\* Bytes received in a binary message: either they do not decode as the
\* response protobuf, or they decode to its three string fields.
\* result_json is the text: empty, not JSON, or the JSON document it holds.
Undecodable ==
  [ decodes |-> FALSE, message_type |-> "", status_message |-> "",
    result_json |-> [text |-> "empty", doc |-> JNone] ]
Proto(mt, rj, sm) ==
  [ decodes |-> TRUE, message_type |-> mt, status_message |-> sm,
    result_json |-> rj ]
EmptyText == [text |-> "empty", doc |-> JNone]
InvalidJson == [text |-> "invalid", doc |-> JNone]
JsonText(doc) == [text |-> "json", doc |-> doc]

\* the loop over the entries of "results" (protocol.rs 268-285)
RECURSIVE ScanResults(_, _, _)
ScanResults(arr, i, acc) ==
  IF i > Len(arr) THEN acc
  ELSE LET r == arr[i]
           t == Get(r, "text")
           a1 == IF t.t = "str" THEN [acc EXCEPT !.text = t.s] ELSE acc
           a2 == IF AsBoolIs(Get(r, "is_interim"), FALSE)
                 THEN [a1 EXCEPT !.is_interim = FALSE] ELSE a1
           a3 == IF AsBoolIs(Get(r, "is_vad_finished"), TRUE)
                 THEN [a2 EXCEPT !.vad_finished = TRUE] ELSE a2
           a4 == IF AsBoolIs(Get(Get(r, "extra"), "nonstream_result"), TRUE)
                 THEN [a3 EXCEPT !.nonstream_result = TRUE] ELSE a3
       IN ScanResults(arr, i + 1, a4)

\* variant: the first string text is kept, later ones do not overwrite it
ParseResults_FirstText(json_data) ==
  LET results == Get(json_data, "results")
      init == [text |-> "", is_interim |-> TRUE, vad_finished |-> FALSE,
               nonstream_result |-> FALSE]
      acc == IF results.t = "arr" THEN ScanResults(results.a, 1, init) ELSE init
      withText == IF results.t = "arr"
                  THEN {i \in 1..Len(results.a) : Get(results.a[i], "text").t = "str"}
                  ELSE {}
      text == IF withText = {} THEN ""
              ELSE Get(results.a[CHOOSE i \in withText : \A j \in withText : i <= j],
                       "text").s
  IN IF acc.nonstream_result \/ (~acc.is_interim /\ acc.vad_finished)
     THEN [DefaultResponse EXCEPT !.response_type = "FinalResult",
             !.text = text, !.is_final = TRUE,
             !.vad_finished = acc.vad_finished, !.raw_json = json_data]
     ELSE [DefaultResponse EXCEPT !.response_type = "InterimResult",
             !.text = text, !.is_final = FALSE, !.raw_json = json_data]

\* variant: either flag alone makes the result final
ParseResults_EitherFlag(json_data) ==
  LET results == Get(json_data, "results")
      init == [text |-> "", is_interim |-> TRUE, vad_finished |-> FALSE,
               nonstream_result |-> FALSE]
      acc == IF results.t = "arr" THEN ScanResults(results.a, 1, init) ELSE init
  IN IF acc.nonstream_result \/ ~acc.is_interim \/ acc.vad_finished
     THEN [DefaultResponse EXCEPT !.response_type = "FinalResult",
             !.text = acc.text, !.is_final = TRUE,
             !.vad_finished = acc.vad_finished, !.raw_json = json_data]
     ELSE [DefaultResponse EXCEPT !.response_type = "InterimResult",
             !.text = acc.text, !.is_final = FALSE, !.raw_json = json_data]

\* variant: an interim result does not carry the document it came from
ParseResults_InterimWithoutRaw(json_data) ==
  LET results == Get(json_data, "results")
      init == [text |-> "", is_interim |-> TRUE, vad_finished |-> FALSE,
               nonstream_result |-> FALSE]
      acc == IF results.t = "arr" THEN ScanResults(results.a, 1, init) ELSE init
  IN IF acc.nonstream_result \/ (~acc.is_interim /\ acc.vad_finished)
     THEN [DefaultResponse EXCEPT !.response_type = "FinalResult",
             !.text = acc.text, !.is_final = TRUE,
             !.vad_finished = acc.vad_finished, !.raw_json = json_data]
     ELSE [DefaultResponse EXCEPT !.response_type = "InterimResult",
             !.text = acc.text, !.is_final = FALSE]

ParseResults(json_data) ==
  LET results == Get(json_data, "results")
      init == [text |-> "", is_interim |-> TRUE, vad_finished |-> FALSE,
               nonstream_result |-> FALSE]
      acc == IF results.t = "arr" THEN ScanResults(results.a, 1, init) ELSE init
  IN IF acc.nonstream_result \/ (~acc.is_interim /\ acc.vad_finished)
     THEN [DefaultResponse EXCEPT !.response_type = "FinalResult",
             !.text = acc.text, !.is_final = TRUE,
             !.vad_finished = acc.vad_finished, !.raw_json = json_data]
     ELSE [DefaultResponse EXCEPT !.response_type = "InterimResult",
             !.text = acc.text, !.is_final = FALSE, !.raw_json = json_data]

\* variant: the VAD-start marker counts only when "results" has no entries
ParseDocument_VadOnlyWithoutEntries(json_data) ==
  LET results == Get(json_data, "results")
      extra == Get(json_data, "extra")
      pn == Get(extra, "packet_number")
  IN IF results.t = "none"
     THEN [DefaultResponse EXCEPT !.response_type = "Heartbeat",
             !.packet_number = IF pn.t = "int" THEN AsI32(pn.limbs)
                               ELSE DEFAULT_PACKET_NUMBER,
             !.raw_json = json_data]
     ELSE IF /\ AsBoolIs(Get(extra, "vad_start"), TRUE)
             /\ ~(results.t = "arr" /\ Len(results.a) > 0)
     THEN [DefaultResponse EXCEPT !.response_type = "VadStart",
             !.vad_start = TRUE, !.raw_json = json_data]
     ELSE ParseResults(json_data)

ParseDocument(json_data) ==
  LET results == Get(json_data, "results")
      extra == Get(json_data, "extra")
      pn == Get(extra, "packet_number")
  IN IF results.t = "none"
     THEN [DefaultResponse EXCEPT !.response_type = "Heartbeat",
             !.packet_number = IF pn.t = "int" THEN AsI32(pn.limbs)
                               ELSE DEFAULT_PACKET_NUMBER,
             !.raw_json = json_data]
     ELSE IF AsBoolIs(Get(extra, "vad_start"), TRUE)
     THEN [DefaultResponse EXCEPT !.response_type = "VadStart",
             !.vad_start = TRUE, !.raw_json = json_data]
     ELSE ParseResults(json_data)

\* variant: without a named message_type the event is Unknown
parse_response_UnnamedIsUnknown(data) ==
  IF ~data.decodes
  THEN [DefaultResponse EXCEPT !.response_type = "Error",
          !.error_msg = "Decode error"]
  ELSE IF data.message_type \in {"TaskStarted", "SessionStarted", "SessionFinished"}
  THEN [DefaultResponse EXCEPT !.response_type = data.message_type]
  ELSE IF data.message_type \in {"TaskFailed", "SessionFailed"}
  THEN [DefaultResponse EXCEPT !.response_type = "Error",
          !.error_msg = data.status_message]
  ELSE [DefaultResponse EXCEPT !.response_type = "Unknown"]

\* variant: a result_json that is not JSON is reported as an Error
parse_response_InvalidJsonIsError(data) ==
  IF ~data.decodes
  THEN [DefaultResponse EXCEPT !.response_type = "Error",
          !.error_msg = "Decode error"]
  ELSE IF data.message_type \in {"TaskStarted", "SessionStarted", "SessionFinished"}
  THEN [DefaultResponse EXCEPT !.response_type = data.message_type]
  ELSE IF data.message_type \in {"TaskFailed", "SessionFailed"}
  THEN [DefaultResponse EXCEPT !.response_type = "Error",
          !.error_msg = data.status_message]
  ELSE IF data.result_json.text = "empty"
  THEN [DefaultResponse EXCEPT !.response_type = "Unknown"]
  ELSE IF data.result_json.text = "invalid"
  THEN [DefaultResponse EXCEPT !.response_type = "Error",
          !.error_msg = "Decode error"]
  ELSE ParseDocument(data.result_json.doc)

\* variant: the failure arm names TaskFailed only
parse_response_SessionFailedUnmatched(data) ==
  IF ~data.decodes
  THEN [DefaultResponse EXCEPT !.response_type = "Error",
          !.error_msg = "Decode error"]
  ELSE IF data.message_type \in {"TaskStarted", "SessionStarted", "SessionFinished"}
  THEN [DefaultResponse EXCEPT !.response_type = data.message_type]
  ELSE IF data.message_type = "TaskFailed"
  THEN [DefaultResponse EXCEPT !.response_type = "Error",
          !.error_msg = data.status_message]
  ELSE IF data.result_json.text \in {"empty", "invalid"}
  THEN [DefaultResponse EXCEPT !.response_type = "Unknown"]
  ELSE ParseDocument(data.result_json.doc)

parse_response(data) ==
  IF ~data.decodes
  THEN [DefaultResponse EXCEPT !.response_type = "Error",
          !.error_msg = "Decode error"]
  ELSE IF data.message_type = "TaskStarted"
  THEN [DefaultResponse EXCEPT !.response_type = "TaskStarted"]
  ELSE IF data.message_type = "SessionStarted"
  THEN [DefaultResponse EXCEPT !.response_type = "SessionStarted"]
  ELSE IF data.message_type = "SessionFinished"
  THEN [DefaultResponse EXCEPT !.response_type = "SessionFinished"]
  ELSE IF data.message_type \in {"TaskFailed", "SessionFailed"}
  THEN [DefaultResponse EXCEPT !.response_type = "Error",
          !.error_msg = data.status_message]
  ELSE IF data.result_json.text = "empty"
  THEN [DefaultResponse EXCEPT !.response_type = "Unknown"]
  ELSE IF data.result_json.text = "invalid"
  THEN [DefaultResponse EXCEPT !.response_type = "Unknown"]
  ELSE ParseDocument(data.result_json.doc)

----------------------------------------------------------------------------
(* The peer: what one read.next().await can yield                          *)

HeartbeatDoc == JObj([extra |-> JObj([packet_number |-> Small(7)])])
InterimDoc == JObj([results |-> JArr(<<JObj([text |-> JStr("he")])>>)])

ServerBytes ==
  { Undecodable,
    Proto("TaskStarted", EmptyText, ""),
    Proto("SessionStarted", EmptyText, ""),
    Proto("SessionFinished", EmptyText, ""),
    Proto("TaskFailed", EmptyText, "quota exceeded"),
    Proto("", JsonText(HeartbeatDoc), ""),
    Proto("", JsonText(InterimDoc), "") }

\* Some(Ok(Message::Binary(data)))
Binary(data) == [kind |-> "binary", data |-> data]
\* Some(Ok(m)) for a message that is not Binary (Text, Ping, Pong, Close)
OtherMessage == [kind |-> "other", data |-> Undecodable]
\* Some(Err(e))
ReadError == [kind |-> "err", data |-> Undecodable]
\* None: the stream has ended
StreamEnd == [kind |-> "none", data |-> Undecodable]
NotRead == [kind |-> "unread", data |-> Undecodable]

ReadOutcomes ==
  {Binary(b) : b \in ServerBytes} \cup {OtherMessage, ReadError, StreamEnd}

----------------------------------------------------------------------------
(* State                                                                   *)

VARIABLES
  pc,            \* where start_realtime is, "returned" once it has returned
  request_id,    \* Uuid generated by this call
  result,        \* what start_realtime returned
  send_log,      \* every write.send(..).await so far, with its outcome
  last_read,     \* kind of what the latest read.next().await yielded
  rejection,     \* the reply that made start_realtime return a failure
  stream_ended,  \* the read half has yielded None or an error
  audio_q,       \* frames buffered in the audio channel
  audio_closed,  \* every sender of the audio channel has been dropped
  produced,      \* frames the producer has enqueued
  pending_at_close, \* frames enqueued but not yet sent when the channel closed
  out_pc,        \* outbound pump position
  frame_index,
  start_time,
  opus_frame,    \* frame taken by audio_rx.recv()
  in_pc,         \* inbound pump position
  response,      \* response the inbound pump parsed last
  pump_reads,    \* read.next() calls of the inbound pump
  result_q,      \* events buffered in the result channel
  rx_closed,     \* the caller has dropped result_rx
  forwarded,     \* events result_tx.send accepted, in order
  delivered,     \* events the caller has received, in order
  data,          \* bytes handed to one call of parse_response
  parse_pc,      \* "idle", "called" or "returned" for that call
  parsed,        \* what that call returned
  new_args,      \* arguments of OpusEncoder::new
  encoder,       \* the OpusEncoder, once constructed
  encode_log,    \* every call of encode on it: its input and what it returned
  cred_file,     \* what the credentials file holds
  store,         \* the CredentialStore: its credentials field, once constructed
  ensure_pc,     \* where the call of ensure_credentials is
  creds,         \* the credentials that call is building
  ensure_result, \* what that call returned
  ensure_log,    \* the steps that call took, each with its outcome and the file after it
  wire,          \* what the server will still send during Streaming, in order
  arrived,       \* what the inbound pump has read of it, in order
  rx_ended,      \* result_rx.recv() has returned None to the caller
  hotkey_config, \* the HotkeyConfig given to HotkeyManager::new
  is_active,     \* HotkeyManager.is_active
  listener_pc,   \* where the thread started by on_trigger is
  last_press_time, \* the listener loop's remembered key event
  last_release,  \* HookState.last_release of the keyboard hook
  hotkey_events, \* events waiting in the GlobalHotKeyEvent receiver
  keys_sent,     \* key events the system has produced so far
  clock,         \* what Instant::now() returns
  handled,       \* every key event handled: when, and what was done
  \* ---- voice control requests (ui/system_tray.rs run_app) ----
  controller_lock,   \* Arc<Mutex<VoiceController>>: 0 when free, else the handler task holding the guard
  is_recording,      \* VoiceController: what is_recording() returns
  button_state,      \* FloatingButton.state (AtomicU8)
  handlers,          \* the spawned handler tasks, in spawn order: [source, pc, saw]
  ui_trace,          \* controller calls and set_state calls, in the order they happened
  \* ---- floating button window (ui/floating_button.rs wnd_proc) ----
  MOUSE_DOWN,        \* static AtomicBool: a press is recorded
  START_CURSOR,      \* START_CURSOR_X, START_CURSOR_Y: the cursor when the press was handled
  START_WIN,         \* START_WIN_X, START_WIN_Y: the window's corner when the press was handled
  drag_timer,        \* DRAG_TIMER_ID is set
  cursor,            \* what GetCursorPos reports
  window,            \* the window's top-left corner
  lbutton,           \* what GetAsyncKeyState(VK_LBUTTON) reports: the button is down
  mouse_queue,       \* the button messages posted to the window and not yet handled
  clicks,            \* how often the user pressed the left button so far
  press_count,       \* WM_LBUTTONDOWN messages handled
  observations       \* every handling that saw the button released, in order

sessionVars == << pc, request_id, result, send_log, last_read, rejection,
                  stream_ended, audio_q, audio_closed, produced,
                  pending_at_close, out_pc, frame_index,
                  start_time, opus_frame, in_pc, response, pump_reads, result_q,
                  rx_closed, forwarded, delivered >>
parseVars == << data, parse_pc, parsed >>
\* state of the components that start_realtime does not touch
encoderVars == << new_args, encoder, encode_log >>
credentialVars == << cred_file, store, ensure_pc, creds, ensure_result, ensure_log >>
\* the server's stream when it is fixed in advance, and the caller's view
\* of the end of the result channel
deliveryVars == << wire, arrived, rx_ended >>
hotkeyVars == << hotkey_config, is_active, listener_pc, last_press_time,
                last_release, hotkey_events, keys_sent, clock, handled >>
buttonVars == << MOUSE_DOWN, START_CURSOR, START_WIN, drag_timer, cursor, window,
                lbutton, mouse_queue, clicks, press_count, observations >>
voiceVars == << controller_lock, is_recording, button_state, handlers, ui_trace >>
nonVoiceVars == << parseVars, encoderVars, credentialVars, deliveryVars, hotkeyVars,
                  buttonVars >>
nonButtonVars == << parseVars, encoderVars, credentialVars, deliveryVars, hotkeyVars, voiceVars >>
nonHotkeyVars == << parseVars, encoderVars, credentialVars, deliveryVars,
                   voiceVars,
                   buttonVars >>
nonDeliveryVars == << parseVars, encoderVars, credentialVars,
                     hotkeyVars,
                     voiceVars,
                     buttonVars >>
pureVars == << parseVars, encoderVars, credentialVars, deliveryVars,
              hotkeyVars,
              voiceVars,
              buttonVars >>
vars == << sessionVars, pureVars >>

mainVars == << pc, request_id, result, rejection >>
audioVars == << audio_q, audio_closed, produced, pending_at_close >>
outVars == << out_pc, frame_index, start_time, opus_frame >>
inVars == << in_pc, response, pump_reads >>
resultVars == << result_q, rx_closed, forwarded, delivered >>

Pending == [status |-> "pending", stage |-> "", error_msg |-> ""]
Ok == [status |-> "ok", stage |-> "", error_msg |-> ""]
Err(stage, msg) == [status |-> "err", stage |-> stage, error_msg |-> msg]

\* no call of parse_response outside the session is in progress
ParseIdle ==
  /\ data = Undecodable
  /\ parse_pc = "idle"
  /\ parsed = DefaultResponse

\* no OpusEncoder exists
NoEncoder ==
  [status |-> "none", error |-> "", sample_rate |-> 0, channels |-> 0,
   frame_size |-> 0, codec |-> <<>>]
EncoderIdle ==
  /\ new_args = [sample_rate |-> 0, channels |-> 0]
  /\ encoder = NoEncoder
  /\ encode_log = <<>>

\* DeviceCredentials with every field empty
EmptyCredentials ==
  [device_id |-> "", install_id |-> "", cdid |-> "", openudid |-> "",
   clientudid |-> "", token |-> ""]
NoFile == [kind |-> "absent", creds |-> EmptyCredentials]
NoStore == [kind |-> "unbuilt", creds |-> EmptyCredentials]
NotReturned == [status |-> "pending", error |-> "", creds |-> EmptyCredentials]
\* no CredentialStore exists
CredentialIdle ==
  /\ cred_file = NoFile
  /\ store = NoStore
  /\ ensure_pc = "idle"
  /\ creds = EmptyCredentials
  /\ ensure_result = NotReturned
  /\ ensure_log = << >>

SessionInit ==
  /\ pc = "connect"
  /\ request_id = ""
  /\ result = Pending
  /\ send_log = <<>>
  /\ last_read = "unread"
  /\ rejection = NotRead
  /\ stream_ended = FALSE
  /\ audio_q = <<>>
  /\ audio_closed = FALSE
  /\ produced = 0
  /\ pending_at_close = 0
  /\ out_pc = "not_spawned"
  /\ frame_index = 0
  /\ start_time = 0
  /\ opus_frame = <<>>
  /\ in_pc = "not_spawned"
  /\ response = DefaultResponse
  /\ pump_reads = 0
  /\ result_q = <<>>
  /\ rx_closed = FALSE
  /\ forwarded = <<>>
  /\ delivered = <<>>

\* the server's stream is not fixed in advance and no end has been seen
DeliveryIdle ==
  /\ wire = <<>>
  /\ arrived = <<>>
  /\ rx_ended = FALSE

\* Option<Instant>
NoInstant == [some |-> FALSE, at |-> 0]
SomeInstant(t) == [some |-> TRUE, at |-> t]

\* no HotkeyManager exists
NoHotkeyConfig == [mode |-> "", double_tap_key |-> "", double_tap_interval |-> 0]
HotkeyIdle ==
  /\ hotkey_config = NoHotkeyConfig
  /\ is_active = FALSE
  /\ listener_pc = "none"
  /\ last_press_time = NoInstant
  /\ last_release = NoInstant
  /\ hotkey_events = 0
  /\ keys_sent = 0
  /\ clock = 0
  /\ handled = <<>>

\* No handler task was ever spawned: the controller is idle and unlocked, the
\* button shows Idle.
VoiceIdle ==
  /\ controller_lock = 0
  /\ is_recording = FALSE
  /\ button_state = "Idle"
  /\ handlers = << >>
  /\ ui_trace = << >>

Origin == [x |-> 0, y |-> 0]

\* The button window does not exist: the statics hold their initial values and no
\* message was ever posted.
ButtonIdle ==
  /\ MOUSE_DOWN = FALSE
  /\ START_CURSOR = Origin
  /\ START_WIN = Origin
  /\ drag_timer = FALSE
  /\ cursor = Origin
  /\ window = Origin
  /\ lbutton = FALSE
  /\ mouse_queue = << >>
  /\ clicks = 0
  /\ press_count = 0
  /\ observations = << >>

Init == SessionInit /\ ParseIdle /\ EncoderIdle /\ CredentialIdle /\ DeliveryIdle
  /\ HotkeyIdle
  /\ VoiceIdle
  /\ ButtonIdle

----------------------------------------------------------------------------
(* The connection                                                          *)

\* what read.next().await can yield now
AvailableReads == IF stream_ended THEN {StreamEnd} ELSE ReadOutcomes

EndsStream(r) == r.kind \in {"none", "err"}

\* write.send(Message::Binary(msg)).await, which succeeds or fails
Sent(msg, ok) == send_log' = Append(send_log, [msg |-> msg, ok |-> ok])

----------------------------------------------------------------------------
(* client.rs 46-103: connect and handshake                                 *)

\* variant: the reply is parsed but its type is never looked at
Rejects_Never(r) == FALSE

\* the reply read by a handshake wait rejects the handshake (client.rs 82-86)
Rejects(r) ==
  r.kind = "binary" /\ parse_response(r.data).response_type = "Error"

\* the reply is a binary envelope that parse_response classifies Error
ErrorReply(r) ==
  r.kind = "binary" /\ parse_response(r.data).response_type = "Error"

Connect ==
  /\ pc = "connect"
  /\ \E rid \in RequestIds, ok \in BOOLEAN :
       /\ request_id' = rid
       /\ IF ok THEN pc' = "send_start_task" /\ result' = result
          ELSE pc' = "returned" /\ result' = Err("connect", "")
  /\ UNCHANGED << pureVars, send_log, last_read, rejection, stream_ended,
                  audioVars, outVars, inVars, resultVars >>

SendStartTask ==
  /\ pc = "send_start_task"
  /\ \E ok \in BOOLEAN :
       /\ Sent(build_start_task(request_id, Token), ok)
       /\ IF ok THEN pc' = "wait_task_started" /\ result' = result
          ELSE pc' = "returned" /\ result' = Err("send", "")
  /\ UNCHANGED << pureVars, request_id, last_read, rejection,
                  stream_ended, audioVars, outVars, inVars, resultVars >>

WaitTaskStarted ==
  /\ pc = "wait_task_started"
  /\ \E r \in AvailableReads :
       /\ last_read' = r.kind
       /\ stream_ended' = (stream_ended \/ EndsStream(r))
       /\ IF Rejects(r)
          THEN /\ pc' = "returned"
               /\ result' = Err("StartTask failed", parse_response(r.data).error_msg)
          ELSE pc' = "send_start_session" /\ result' = result
       /\ rejection' = IF ErrorReply(r) THEN r ELSE rejection
  /\ UNCHANGED << pureVars, request_id, send_log,
                  audioVars, outVars, inVars, resultVars >>

SendStartSession ==
  /\ pc = "send_start_session"
  /\ \E ok \in BOOLEAN :
       /\ Sent(build_start_session(request_id, Token, SessionConfig(DeviceId)), ok)
       /\ IF ok THEN pc' = "wait_session_started" /\ result' = result
          ELSE pc' = "returned" /\ result' = Err("send", "")
  /\ UNCHANGED << pureVars, request_id, last_read, rejection,
                  stream_ended, audioVars, outVars, inVars, resultVars >>

\* the second wait, then both tasks are spawned and Ok(result_rx) returned
WaitSessionStarted ==
  /\ pc = "wait_session_started"
  /\ \E r \in AvailableReads :
       /\ last_read' = r.kind
       /\ stream_ended' = (stream_ended \/ EndsStream(r))
       /\ IF Rejects(r)
          THEN /\ pc' = "returned"
               /\ result' = Err("StartSession failed", parse_response(r.data).error_msg)
               /\ UNCHANGED << out_pc, in_pc >>
          ELSE /\ pc' = "returned"
               /\ result' = Ok
               /\ out_pc' = "spawned"
               /\ in_pc' = "read"
       /\ rejection' = IF ErrorReply(r) THEN r ELSE rejection
  /\ UNCHANGED << pureVars, request_id, send_log, audioVars, frame_index,
                  start_time, opus_frame, response, pump_reads, resultVars >>

----------------------------------------------------------------------------
(* The audio producer (the caller's capture side of the audio channel)     *)

\* audio_rx is dropped when start_realtime fails or the outbound pump ends
AudioRxDropped ==
  \/ out_pc = "done"
  \/ pc = "returned" /\ result.status = "err"

\* the n-th encoded frame, a one-byte payload that identifies it
Frame(n) == << n >>

Produce ==
  /\ ~audio_closed
  /\ ~AudioRxDropped
  /\ produced < MaxFrames
  /\ Len(audio_q) < AudioCapacity
  /\ produced' = produced + 1
  /\ audio_q' = Append(audio_q, Frame(produced + 1))
  /\ UNCHANGED << pureVars, mainVars, last_read, send_log, stream_ended, audio_closed,
                  pending_at_close, outVars, inVars, resultVars >>

CloseAudio ==
  /\ ~audio_closed
  /\ audio_closed' = TRUE
  /\ pending_at_close' = Len(audio_q) + (IF out_pc = "send_frame" THEN 1 ELSE 0)
  /\ UNCHANGED << pureVars, mainVars, last_read, send_log, stream_ended, audio_q, produced, outVars,
                  inVars, resultVars >>

----------------------------------------------------------------------------
(* client.rs 107-159: the outbound pump                                    *)

\* variant: the first frame is taken to be the one with index 1
FrameStateFor_OffByOne(index) == IF index = 1 THEN "First" ELSE "Middle"

\* client.rs 113-117
FrameStateFor(index) == IF index = 0 THEN "First" ELSE "Middle"

\* variant: the first frame is stamped one frame duration after the start
TimestampFor_CountsFromOne(start, index) ==
  start + (index + 1) * FRAME_DURATION_MS

\* variant: the frame index is left out of the timestamp
TimestampFor_NoIndex(start, index) == start

\* client.rs 119 and 144
TimestampFor(start, index) == start + index * FRAME_DURATION_MS

\* variant: the closing sequence is sent whatever the frame count
AfterLoop_Unguarded(index) == "send_last"

\* client.rs 143: what follows the loop, whichever way it was left
AfterLoop(index) == IF index > 0 THEN "send_last" ELSE "done"

\* client.rs 108-109
OutStart ==
  /\ out_pc = "spawned"
  /\ frame_index' = 0
  /\ \E t \in StartTimes : start_time' = t
  /\ out_pc' = "recv"
  /\ UNCHANGED << pureVars, mainVars, last_read, send_log, stream_ended, audioVars, opus_frame,
                  inVars, resultVars >>

\* variant: a closed channel ends the loop although frames are buffered
OutRecv_DropsBuffered ==
  /\ out_pc = "recv"
  /\ \/ /\ audio_q # <<>>
        /\ ~audio_closed
        /\ opus_frame' = Head(audio_q)
        /\ audio_q' = Tail(audio_q)
        /\ out_pc' = "send_frame"
     \/ /\ audio_closed
        /\ out_pc' = AfterLoop(frame_index)
        /\ UNCHANGED << opus_frame, audio_q >>
  /\ UNCHANGED << pureVars, mainVars, last_read, send_log, stream_ended, audio_closed, produced,
                  pending_at_close, frame_index, start_time, inVars,
                  resultVars >>

\* variant: recv keeps waiting for a frame after the channel was closed
OutRecv_IgnoresClosure ==
  /\ out_pc = "recv"
  /\ audio_q # <<>>
  /\ opus_frame' = Head(audio_q)
  /\ audio_q' = Tail(audio_q)
  /\ out_pc' = "send_frame"
  /\ UNCHANGED << pureVars, mainVars, last_read, send_log, stream_ended, audio_closed, produced,
                  pending_at_close, frame_index, start_time, inVars,
                  resultVars >>

\* variant: once the inbound pump has ended recv yields None at once
OutRecv_StopsWithInbound ==
  /\ out_pc = "recv"
  /\ \/ /\ in_pc # "done"
        /\ audio_q # <<>>
        /\ opus_frame' = Head(audio_q)
        /\ audio_q' = Tail(audio_q)
        /\ out_pc' = "send_frame"
     \/ /\ in_pc = "done" \/ (audio_q = <<>> /\ audio_closed)
        /\ out_pc' = AfterLoop(frame_index)
        /\ UNCHANGED << opus_frame, audio_q >>
  /\ UNCHANGED << pureVars, mainVars, last_read, send_log, stream_ended, audio_closed, produced,
                  pending_at_close, frame_index, start_time, inVars,
                  resultVars >>

\* client.rs 112: audio_rx.recv().await yields a buffered frame, or None
\* once the channel is closed and empty
OutRecv ==
  /\ out_pc = "recv"
  /\ \/ /\ audio_q # <<>>
        /\ opus_frame' = Head(audio_q)
        /\ audio_q' = Tail(audio_q)
        /\ out_pc' = "send_frame"
     \/ /\ audio_q = <<>>
        /\ audio_closed
        /\ out_pc' = AfterLoop(frame_index)
        /\ UNCHANGED << opus_frame, audio_q >>
  /\ UNCHANGED << pureVars, mainVars, last_read, send_log, stream_ended, audio_closed, produced,
                  pending_at_close, frame_index, start_time, inVars,
                  resultVars >>

\* client.rs 113-132: build and send one frame; a failed send leaves the loop
OutSendFrame ==
  /\ out_pc = "send_frame"
  /\ \E ok \in BOOLEAN :
       /\ Sent(build_task_request(request_id, opus_frame,
                                  FrameStateFor(frame_index),
                                  TimestampFor(start_time, frame_index)), ok)
       /\ IF ok
          THEN frame_index' = frame_index + 1 /\ out_pc' = "recv"
          ELSE frame_index' = frame_index /\ out_pc' = AfterLoop(frame_index)
  /\ UNCHANGED << pureVars, mainVars, last_read, stream_ended, audioVars, start_time, opus_frame,
                  inVars, resultVars >>

\* client.rs 144-152: the closing frame, its outcome ignored
OutSendLast ==
  /\ out_pc = "send_last"
  /\ \E ok \in BOOLEAN :
       Sent(build_task_request(request_id, SilentFrame, "Last",
                               TimestampFor(start_time, frame_index)), ok)
  /\ out_pc' = "send_finish"
  /\ UNCHANGED << pureVars, mainVars, last_read, stream_ended, audioVars, frame_index, start_time,
                  opus_frame, inVars, resultVars >>

\* client.rs 155-157
OutSendFinish ==
  /\ out_pc = "send_finish"
  /\ \E ok \in BOOLEAN :
       Sent(build_finish_session(request_id, Token), ok)
  /\ out_pc' = "done"
  /\ UNCHANGED << pureVars, mainVars, last_read, stream_ended, audioVars, frame_index, start_time,
                  opus_frame, inVars, resultVars >>

----------------------------------------------------------------------------
(* client.rs 162-185: the inbound pump                                     *)

\* variant: heartbeats fall into the default arm
PumpRoute_ForwardsHeartbeat(response_type) ==
  IF response_type \in {"Error", "SessionFinished"} THEN "send_terminal"
  ELSE "send"

\* variant: only SessionFinished ends the loop
PumpRoute_ErrorNotTerminal(response_type) ==
  IF response_type = "SessionFinished" THEN "send_terminal"
  ELSE IF response_type = "Heartbeat" THEN "read"
  ELSE "send"

\* client.rs 168-182: what the pump does with a parsed response
PumpRoute(response_type) ==
  IF response_type \in {"Error", "SessionFinished"} THEN "send_terminal"
  ELSE IF response_type = "Heartbeat" THEN "read"
  ELSE "send"

\* variant: the inbound pump itself finishes the session on the wire when
\* it has parsed a terminal event
PumpRead_WritesFinish(r) ==
  /\ in_pc = "read"
  /\ last_read' = r.kind
  /\ stream_ended' = (stream_ended \/ EndsStream(r))
  /\ IF EndsStream(r)
     THEN in_pc' = "done" /\ response' = response /\ send_log' = send_log
     ELSE IF r.kind # "binary"
     THEN in_pc' = "read" /\ response' = response /\ send_log' = send_log
     ELSE /\ response' = parse_response(r.data)
          /\ in_pc' = PumpRoute(parse_response(r.data).response_type)
          /\ IF PumpRoute(parse_response(r.data).response_type) = "send_terminal"
             THEN Sent(build_finish_session(request_id, Token), TRUE)
             ELSE send_log' = send_log
  /\ UNCHANGED << mainVars, audioVars, outVars, resultVars >>

\* client.rs 164-168: read.next().await yields r and the loop handles it
PumpRead(r) ==
  /\ in_pc = "read"
  /\ last_read' = r.kind
  /\ stream_ended' = (stream_ended \/ EndsStream(r))
  /\ IF EndsStream(r)
     THEN in_pc' = "done" /\ response' = response
     ELSE IF r.kind # "binary"
     THEN in_pc' = "read" /\ response' = response
     ELSE /\ response' = parse_response(r.data)
          /\ in_pc' = PumpRoute(parse_response(r.data).response_type)
  /\ UNCHANGED << mainVars, send_log, audioVars, outVars, resultVars >>

\* client.rs 164-166: one read.next().await of the loop
InRead ==
  /\ pump_reads < MaxPumpReads
  /\ \E r \in AvailableReads : PumpRead(r)
  /\ pump_reads' = pump_reads + 1
  /\ UNCHANGED pureVars

\* variant: the loop goes on reading after it has forwarded a terminal event
InSendTerminal_KeepsReading ==
  /\ in_pc = "send_terminal"
  /\ \/ /\ rx_closed
        /\ UNCHANGED << result_q, forwarded >>
     \/ /\ ~rx_closed
        /\ Len(result_q) < ResultCapacity
        /\ result_q' = Append(result_q, response)
        /\ forwarded' = Append(forwarded, response)
  /\ in_pc' = "read"
  /\ UNCHANGED << pureVars, mainVars, last_read, send_log, stream_ended, audioVars, outVars,
                  response, pump_reads, rx_closed, delivered >>

\* result_tx_clone.send(response).await: fails once the receiver is gone,
\* completes when the channel has room, waits otherwise
\* client.rs 169-172: the outcome is ignored and the loop is left
InSendTerminal ==
  /\ in_pc = "send_terminal"
  /\ \/ /\ rx_closed
        /\ UNCHANGED << result_q, forwarded >>
     \/ /\ ~rx_closed
        /\ Len(result_q) < ResultCapacity
        /\ result_q' = Append(result_q, response)
        /\ forwarded' = Append(forwarded, response)
  /\ in_pc' = "done"
  /\ UNCHANGED << pureVars, mainVars, last_read, send_log, stream_ended, audioVars, outVars,
                  response, pump_reads, rx_closed, delivered >>

\* variant: a failed send is ignored and the loop goes on
InSend_IgnoresClosedQueue ==
  /\ in_pc = "send"
  /\ \/ /\ rx_closed
        /\ UNCHANGED << result_q, forwarded >>
     \/ /\ ~rx_closed
        /\ Len(result_q) < ResultCapacity
        /\ result_q' = Append(result_q, response)
        /\ forwarded' = Append(forwarded, response)
  /\ in_pc' = "read"
  /\ UNCHANGED << pureVars, mainVars, last_read, send_log, stream_ended, audioVars, outVars,
                  response, pump_reads, rx_closed, delivered >>

\* variant: a full channel makes room by discarding its oldest event
InSend_OverwritesWhenFull ==
  /\ in_pc = "send"
  /\ \/ /\ rx_closed
        /\ in_pc' = "done"
        /\ UNCHANGED << result_q, forwarded >>
     \/ /\ ~rx_closed
        /\ result_q' = IF Len(result_q) < ResultCapacity
                       THEN Append(result_q, response)
                       ELSE Append(Tail(result_q), response)
        /\ forwarded' = Append(forwarded, response)
        /\ in_pc' = "read"
  /\ UNCHANGED << pureVars, mainVars, last_read, send_log, stream_ended, audioVars, outVars,
                  response, pump_reads, rx_closed, delivered >>

\* client.rs 177-181: a failed send leaves the loop
InSend ==
  /\ in_pc = "send"
  /\ \/ /\ rx_closed
        /\ in_pc' = "done"
        /\ UNCHANGED << result_q, forwarded >>
     \/ /\ ~rx_closed
        /\ Len(result_q) < ResultCapacity
        /\ result_q' = Append(result_q, response)
        /\ forwarded' = Append(forwarded, response)
        /\ in_pc' = "read"
  /\ UNCHANGED << pureVars, mainVars, last_read, send_log, stream_ended, audioVars, outVars,
                  response, pump_reads, rx_closed, delivered >>

----------------------------------------------------------------------------
(* The caller's side of the result channel                                 *)

\* result_rx.recv().await
ConsumerRecv ==
  /\ result.status = "ok"
  /\ ~rx_closed
  /\ result_q # <<>>
  /\ delivered' = Append(delivered, Head(result_q))
  /\ result_q' = Tail(result_q)
  /\ UNCHANGED << pureVars, mainVars, last_read, send_log, stream_ended, audioVars, outVars,
                  inVars, rx_closed, forwarded >>

\* the caller drops result_rx; what is still buffered is discarded
ConsumerDrop ==
  /\ result.status = "ok"
  /\ ~rx_closed
  /\ rx_closed' = TRUE
  /\ result_q' = <<>>
  /\ UNCHANGED << pureVars, mainVars, last_read, send_log, stream_ended, audioVars, outVars,
                  inVars, forwarded, delivered >>

----------------------------------------------------------------------------

Next ==
  \/ Connect
  \/ SendStartTask
  \/ WaitTaskStarted
  \/ SendStartSession
  \/ WaitSessionStarted
  \/ Produce
  \/ CloseAudio
  \/ OutStart
  \/ OutRecv
  \/ OutSendFrame
  \/ OutSendLast
  \/ OutSendFinish
  \/ InRead
  \/ InSendTerminal
  \/ InSend
  \/ ConsumerRecv
  \/ ConsumerDrop

Spec == Init /\ [][Next]_vars

----------------------------------------------------------------------------
(* protocol.rs 168-307: parse_response called on its own                   *)

\* a JSON object from its members; a member given as JNone is absent
Object(members) ==
  JObj([k \in {m \in DOMAIN members : members[m].t # "none"} |-> members[k]])

\* one entry of "results", as the code reads it (protocol.rs 269-284)
ResultEntry(text, is_interim, is_vad_finished, nonstream_result) ==
  Object([ text |-> text, is_interim |-> is_interim,
           is_vad_finished |-> is_vad_finished,
           extra |-> IF nonstream_result.t = "none" THEN JNone
                     ELSE JObj([nonstream_result |-> nonstream_result]) ])

EntryTexts == {JNone, JStr("he"), JStr("hello"), Small(5)}
EntryFlags == {JNone, JBool(TRUE), JBool(FALSE)}

\* entries whose members have another type than the code asks for
OddEntries ==
  { JStr("he"),
    ResultEntry(JStr("hi"), JStr("false"), JBool(FALSE), JBool(FALSE)),
    ResultEntry(JNull, JNull, JStr("true"), JStr("true")),
    Object([text |-> JStr("hi"), extra |-> JStr("nonstream_result")]) }

ResultEntries ==
  { ResultEntry(t, i, v, n) :
      t \in EntryTexts, i \in EntryFlags,
      v \in {JNone, JBool(TRUE)}, n \in {JNone, JBool(TRUE)} }
  \cup OddEntries

ResultArrays == UNION { [1..n -> ResultEntries] : n \in 0..MaxResults }

\* the top-level document (protocol.rs 233-234)
Document(results, extra) == Object([results |-> results, extra |-> extra])

\* 2^32 + 5, -2 and 2^31 as i64 values
BigPacketNumber == JInt(<<5, 0, 1, 0>>)
NegativePacketNumber == JInt(<<65534, 65535, 65535, 65535>>)
WrappingPacketNumber == JInt(<<0, 32768, 0, 0>>)

Extras ==
  { JNone, JNull, JStr("extra"), JObj(<<>>),
    JObj([vad_start |-> JBool(TRUE)]),
    JObj([vad_start |-> JBool(FALSE)]),
    JObj([vad_start |-> JStr("true")]),
    JObj([packet_number |-> Small(7)]),
    JObj([packet_number |-> Small(7), vad_start |-> JBool(TRUE)]),
    JObj([packet_number |-> BigPacketNumber]),
    JObj([packet_number |-> NegativePacketNumber]),
    JObj([packet_number |-> WrappingPacketNumber]),
    JObj([packet_number |-> JFloat]),
    JObj([packet_number |-> JStr("7")]) }

FinalEntry == ResultEntry(JStr("hello"), JBool(FALSE), JBool(TRUE), JNone)
InterimEntry == ResultEntry(JStr("he"), JBool(TRUE), JNone, JNone)

SmallResults ==
  { JNone, JNull, JStr("results"), JArr(<<>>), JArr(<<InterimEntry>>),
    JArr(<<FinalEntry>>) }

SmallDocuments ==
  { Document(r, e) : r \in SmallResults, e \in Extras }
  \cup {JNull, Small(5), JArr(<<FinalEntry>>)}

\* message_type values the code names, and two it does not
RecognisedTypes ==
  {"TaskStarted", "SessionStarted", "SessionFinished", "TaskFailed",
   "SessionFailed"}
OtherTypes == {"", "Result"}
StatusMessages == {"", "quota exceeded"}

ParseInputs ==
  {Undecodable}
  \cup { Proto(mt, rj, sm) :
           mt \in RecognisedTypes \cup OtherTypes,
           rj \in {EmptyText, InvalidJson}
                    \cup {JsonText(d) : d \in SmallDocuments},
           sm \in StatusMessages }
  \cup { Proto("", JsonText(Document(JArr(a), JNone)), "") : a \in ResultArrays }

ParseInit ==
  /\ SessionInit
  /\ EncoderIdle
  /\ CredentialIdle
  /\ DeliveryIdle
  /\ data \in ParseInputs
  /\ parse_pc = "called"
  /\ parsed = DefaultResponse
  /\ HotkeyIdle
  /\ VoiceIdle
  /\ ButtonIdle

\* parse_response(&data) runs to its return
ParseCall ==
  /\ parse_pc = "called"
  /\ parsed' = parse_response(data)
  /\ parse_pc' = "returned"
  /\ UNCHANGED << sessionVars, buttonVars, voiceVars, hotkeyVars, deliveryVars, encoderVars, credentialVars, data >>

ParseNext == ParseCall

ParseSpec == ParseInit /\ [][ParseNext]_vars

----------------------------------------------------------------------------
(* client.rs 163-185: the inbound pump on a server that does not stop      *)
(* sending, with the scheduling of the tokio runtime                       *)

HeartbeatDoc2 == JObj([extra |-> JObj([packet_number |-> Small(8)])])

\* envelopes of a streaming session: heartbeats with changing packet
\* numbers, a result, the end of the session, and bytes that do not decode
PumpBytes ==
  { Proto("", JsonText(HeartbeatDoc), ""),
    Proto("", JsonText(HeartbeatDoc2), ""),
    Proto("", JsonText(InterimDoc), ""),
    Proto("SessionFinished", EmptyText, ""),
    Undecodable }

PumpReads ==
  IF stream_ended THEN {StreamEnd}
  ELSE {Binary(b) : b \in PumpBytes} \cup {OtherMessage, ReadError, StreamEnd}

\* the loop's read yields a binary envelope
ReadEnvelope ==
  /\ \E r \in PumpReads : r.kind = "binary" /\ PumpRead(r)
  /\ UNCHANGED << pump_reads, pureVars >>

\* the loop's read yields anything else: another message, an error, the end
ReadNoEnvelope ==
  /\ \E r \in PumpReads : r.kind # "binary" /\ PumpRead(r)
  /\ UNCHANGED << pump_reads, pureVars >>

\* the caller receives some events and then stops receiving
ConsumerRecvSome ==
  /\ Len(delivered) < MaxPumpReads
  /\ ConsumerRecv

PumpNext ==
  \/ Connect
  \/ SendStartTask
  \/ WaitTaskStarted
  \/ SendStartSession
  \/ WaitSessionStarted
  \/ ReadEnvelope
  \/ ReadNoEnvelope
  \/ InSendTerminal
  \/ InSend
  \/ ConsumerRecvSome
  \/ ConsumerDrop

\* the spawned task is polled whenever it can make progress, the server
\* keeps sending envelopes for as long as the connection is open, and a
\* read on a connection that has ended returns
PumpFairness ==
  /\ WF_vars(ReadEnvelope)
  /\ WF_vars(stream_ended /\ ReadNoEnvelope)
  /\ WF_vars(InSend)
  /\ WF_vars(InSendTerminal)

PumpSpec == Init /\ [][PumpNext]_vars /\ PumpFairness

----------------------------------------------------------------------------
(* audio/encoder.rs: OpusEncoder                                           *)

\* sampling rates the Opus library accepts in Encoder::new
OpusRates == {8000, 12000, 16000, 24000, 48000}
\* arguments a caller may pass to OpusEncoder::new
SampleRates == {8000, 16000, 44100}
ChannelCounts == {1, 2, 3}

\* encoder.rs 18-37
OpusEncoder_new(sample_rate, channels) ==
  IF channels \notin {1, 2}
  THEN [NoEncoder EXCEPT !.status = "err", !.error = "Invalid channel count"]
  ELSE IF sample_rate \notin OpusRates
  THEN [NoEncoder EXCEPT !.status = "err",
          !.error = "Failed to create Opus encoder"]
  ELSE [status |-> "ok", error |-> "", sample_rate |-> sample_rate,
        channels |-> channels,
        frame_size |-> (sample_rate * ENCODER_FRAME_MS) \div 1000,
        codec |-> <<>>]

\* PCM input: so many bytes of the recording named by tag
Pcm(bytes, tag) == [bytes |-> bytes, tag |-> tag]
\* pcm_data.chunks_exact(2): whole samples only, a trailing odd byte is dropped
SampleCount(pcm_data) == pcm_data.bytes \div BYTES_PER_SAMPLE

EncodeOk(frame, position) ==
  [status |-> "ok", error |-> "", got |-> 0, expected |-> 0,
   output |-> << [frame |-> frame, position |-> position] >>]
EncodeErr(msg, got, expected) ==
  [status |-> "err", error |-> msg, got |-> got, expected |-> expected,
   output |-> <<>>]

\* variant: the codec is given what there is before the length is checked
encode_ChecksAfterCodec(enc, pcm_data) ==
  LET samples_len == SampleCount(pcm_data)
      expected_samples == enc.frame_size * enc.channels
      given == IF samples_len < expected_samples THEN samples_len
               ELSE expected_samples
      frame == [samples |-> given, tag |-> pcm_data.tag]
  IN IF samples_len < expected_samples
     THEN [ encoder |-> [enc EXCEPT !.codec = Append(@, frame)],
            result |-> EncodeErr("Not enough samples", samples_len,
                                 expected_samples) ]
     ELSE [ encoder |-> [enc EXCEPT !.codec = Append(@, frame)],
            result |-> EncodeOk(frame, Len(enc.codec) + 1) ]

\* variant: a short input is filled up with silence and encoded
encode_PadsShortInput(enc, pcm_data) ==
  LET expected_samples == enc.frame_size * enc.channels
      frame == [samples |-> expected_samples, tag |-> pcm_data.tag]
  IN [ encoder |-> [enc EXCEPT !.codec = Append(@, frame)],
       result |-> EncodeOk(frame, Len(enc.codec) + 1) ]

\* encoder.rs 43-68: the encoder after the call and what the call returns.
\* The Opus codec keeps state from frame to frame: codec is the sequence of
\* frames it has been given, and the packet it returns stands for the frame
\* and its position in that sequence.
encode(enc, pcm_data) ==
  LET samples_len == SampleCount(pcm_data)
      expected_samples == enc.frame_size * enc.channels
      frame == [samples |-> expected_samples, tag |-> pcm_data.tag]
  IN IF samples_len < expected_samples
     THEN [ encoder |-> enc,
            result |-> EncodeErr("Not enough samples", samples_len,
                                 expected_samples) ]
     ELSE [ encoder |-> [enc EXCEPT !.codec = Append(@, frame)],
            result |-> EncodeOk(frame, Len(enc.codec) + 1) ]

\* inputs around the length of one frame: empty, one sample short, one
\* byte short, exact, one byte over, one sample over
PcmInputs(enc) ==
  LET exact == enc.frame_size * enc.channels * BYTES_PER_SAMPLE
  IN { Pcm(n, tag) :
         n \in {0, exact - 2, exact - 1, exact, exact + 1, exact + 2},
         tag \in {"a", "b"} }

EncoderInit ==
  /\ SessionInit
  /\ ParseIdle
  /\ CredentialIdle
  /\ DeliveryIdle
  /\ new_args \in [sample_rate : SampleRates, channels : ChannelCounts]
  /\ encoder = NoEncoder
  /\ encode_log = <<>>
  /\ HotkeyIdle
  /\ VoiceIdle
  /\ ButtonIdle

EncoderNew ==
  /\ encoder.status = "none"
  /\ encoder' = OpusEncoder_new(new_args.sample_rate, new_args.channels)
  /\ UNCHANGED << sessionVars, buttonVars, voiceVars, hotkeyVars, deliveryVars, parseVars, credentialVars, new_args, encode_log >>

EncoderEncode ==
  /\ encoder.status = "ok"
  /\ Len(encode_log) < MaxEncodeCalls
  /\ \E pcm_data \in PcmInputs(encoder) :
       /\ encoder' = encode(encoder, pcm_data).encoder
       /\ encode_log' = Append(encode_log,
                               [ pcm_data |-> pcm_data,
                                 result |-> encode(encoder, pcm_data).result ])
  /\ UNCHANGED << sessionVars, buttonVars, voiceVars, hotkeyVars, deliveryVars, parseVars, credentialVars, new_args >>

EncoderNext ==
  \/ EncoderNew
  \/ EncoderEncode

EncoderSpec == EncoderInit /\ [][EncoderNext]_vars

----------------------------------------------------------------------------
(* data/credential.rs and asr/device.rs: obtaining the credentials         *)

\* u64::to_string()
DecimalDigits == <<"0", "1", "2", "3", "4", "5", "6", "7", "8", "9">>
RECURSIVE to_string(_)
to_string(n) ==
  IF n < 10 THEN DecimalDigits[n + 1]
  ELSE to_string(n \div 10) \o DecimalDigits[(n % 10) + 1]

\* device.rs 28-37: the ids are drawn at random, device_id and token empty
GeneratedIds ==
  { [cdid |-> "cdid-a", openudid |-> "0a1b2c3d4e5f6071", clientudid |-> "cl-a"],
    [cdid |-> "cdid-b", openudid |-> "ffeeddccbbaa9988", clientudid |-> "cl-b"] }
new_generated(ids) ==
  [device_id |-> "", install_id |-> "", cdid |-> ids.cdid,
   openudid |-> ids.openudid, clientudid |-> ids.clientudid, token |-> ""]

\* device.rs 40-42
is_complete(c) == c.device_id # "" /\ c.token # ""

\* what an HTTP exchange can come to: no response, a response whose status
\* is not a success, a body that does not deserialize, or the decoded body
TransportError == [kind |-> "transport", device_id |-> 0, install_id |-> 0, app_key |-> ""]
BadStatus == [kind |-> "status", device_id |-> 0, install_id |-> 0, app_key |-> ""]
BadBody == [kind |-> "body", device_id |-> 0, install_id |-> 0, app_key |-> ""]
RegisterBody(device_id, install_id) ==
  [kind |-> "ok", device_id |-> device_id, install_id |-> install_id, app_key |-> ""]
SettingsBody(app_key) ==
  [kind |-> "ok", device_id |-> 0, install_id |-> 0, app_key |-> app_key]

RegisterReplies ==
  {TransportError, BadStatus, BadBody}
  \cup {RegisterBody(d, i) : d \in {0, 7, 4096}, i \in {0, 9}}
SettingsReplies ==
  {TransportError, BadStatus, BadBody}
  \cup {SettingsBody(k) : k \in {"", "key-a", "key-b"}}

Done(c) == [status |-> "ok", error |-> "", creds |-> c]
Failed(msg) == [status |-> "err", error |-> msg, creds |-> EmptyCredentials]

\* device.rs 206-265: the credentials after the call and what it returns
register_device(c, reply) ==
  IF reply.kind = "transport" THEN [creds |-> c, result |-> Failed("send")]
  ELSE IF reply.kind = "status"
  THEN [creds |-> c, result |-> Failed("Device registration failed")]
  ELSE IF reply.kind = "body" THEN [creds |-> c, result |-> Failed("json")]
  ELSE IF reply.device_id = 0
  THEN [creds |-> c,
        result |-> Failed("Device registration returned invalid device_id")]
  ELSE LET c2 == [c EXCEPT !.device_id = to_string(reply.device_id),
                           !.install_id = to_string(reply.install_id)]
       IN [creds |-> c2, result |-> Done(c2)]

\* device.rs 268-306
get_asr_token(c, reply) ==
  IF reply.kind = "transport" THEN [creds |-> c, result |-> Failed("send")]
  ELSE IF reply.kind = "status"
  THEN [creds |-> c, result |-> Failed("Failed to get ASR token")]
  ELSE IF reply.kind = "body" THEN [creds |-> c, result |-> Failed("json")]
  ELSE LET c2 == [c EXCEPT !.token = reply.app_key]
       IN [creds |-> c2, result |-> Done(c2)]

\* credentials a file left by an earlier run, or by hand, can hold
StoredCredentials ==
  { [EmptyCredentials EXCEPT !.device_id = d, !.token = t, !.cdid = "cdid-0"] :
      d \in {"", "7"}, t \in {"", "key-0"} }
CredentialFiles ==
  {NoFile, [kind |-> "corrupt", creds |-> EmptyCredentials]}
  \cup {[kind |-> "json", creds |-> c] : c \in StoredCredentials}

CredentialInit ==
  /\ SessionInit
  /\ ParseIdle
  /\ EncoderIdle
  /\ DeliveryIdle
  /\ cred_file \in CredentialFiles
  /\ store = NoStore
  /\ ensure_pc = "idle"
  /\ creds = EmptyCredentials
  /\ ensure_result = NotReturned
  /\ ensure_log = << >>
  /\ HotkeyIdle
  /\ VoiceIdle
  /\ ButtonIdle

\* credential.rs 19-33: CredentialStore::new loads the file if it can
CredentialStoreNew ==
  /\ store.kind = "unbuilt"
  /\ store' = IF cred_file.kind = "json"
              THEN [kind |-> "some", creds |-> cred_file.creds]
              ELSE [kind |-> "none", creds |-> EmptyCredentials]
  /\ UNCHANGED << sessionVars, buttonVars, voiceVars, hotkeyVars, deliveryVars, parseVars, encoderVars, cred_file, ensure_pc,
                  creds, ensure_result, ensure_log >>

\* one step of ensure_credentials, whether it succeeded, and the file after it
Step(name, ok, file) == [step |-> name, ok |-> ok, file |-> file]

\* credential.rs 36-47: the cached credentials are returned when complete
EnsureCall ==
  /\ store.kind # "unbuilt"
  /\ ensure_pc = "idle"
  /\ IF store.kind = "some" /\ is_complete(store.creds)
     THEN /\ ensure_pc' = "returned"
          /\ ensure_result' = Done(store.creds)
          /\ creds' = creds
          /\ ensure_log' = Append(ensure_log, Step("cached", TRUE, cred_file))
     ELSE /\ \E ids \in GeneratedIds : creds' = new_generated(ids)
          /\ ensure_pc' = "register"
          /\ ensure_result' = ensure_result
          /\ ensure_log' = Append(ensure_log, Step("new_generated", TRUE, cred_file))
  /\ UNCHANGED << sessionVars, buttonVars, voiceVars, hotkeyVars, deliveryVars, parseVars, encoderVars, cred_file, store >>

\* register_device(&mut creds).await without the ?: the error is dropped
EnsureRegister_ContinuesOnError ==
  /\ ensure_pc = "register"
  /\ \E reply \in RegisterReplies :
       LET r == register_device(creds, reply) IN
       /\ creds' = r.creds
       /\ ensure_log' = Append(ensure_log, Step("register_device", r.result.status = "ok", cred_file))
       /\ ensure_pc' = "token" /\ ensure_result' = ensure_result
  /\ UNCHANGED << sessionVars, buttonVars, voiceVars, hotkeyVars, deliveryVars, parseVars, encoderVars, cred_file, store >>

\* credential.rs 50: register_device(&mut creds).await?
EnsureRegister ==
  /\ ensure_pc = "register"
  /\ \E reply \in RegisterReplies :
       LET r == register_device(creds, reply) IN
       /\ creds' = r.creds
       /\ ensure_log' = Append(ensure_log, Step("register_device", r.result.status = "ok", cred_file))
       /\ IF r.result.status = "ok"
          THEN ensure_pc' = "token" /\ ensure_result' = ensure_result
          ELSE ensure_pc' = "returned" /\ ensure_result' = r.result
  /\ UNCHANGED << sessionVars, buttonVars, voiceVars, hotkeyVars, deliveryVars, parseVars, encoderVars, cred_file, store >>

\* credential.rs 53: get_asr_token(&mut creds).await?
EnsureToken ==
  /\ ensure_pc = "token"
  /\ \E reply \in SettingsReplies :
       LET r == get_asr_token(creds, reply) IN
       /\ creds' = r.creds
       /\ ensure_log' = Append(ensure_log, Step("get_asr_token", r.result.status = "ok", cred_file))
       /\ IF r.result.status = "ok"
          THEN ensure_pc' = "save" /\ ensure_result' = ensure_result
          ELSE ensure_pc' = "returned" /\ ensure_result' = r.result
  /\ UNCHANGED << sessionVars, buttonVars, voiceVars, hotkeyVars, deliveryVars, parseVars, encoderVars, cred_file, store >>

\* credential.rs 56-59: creds.save(path)?, then Ok(creds)
EnsureSave ==
  /\ ensure_pc = "save"
  /\ \E written \in BOOLEAN :
       IF written
       THEN /\ cred_file' = [kind |-> "json", creds |-> creds]
            /\ ensure_result' = Done(creds)
            /\ ensure_log' = Append(ensure_log, Step("save", TRUE, cred_file'))
       ELSE /\ cred_file' = cred_file
            /\ ensure_result' = Failed("write")
            /\ ensure_log' = Append(ensure_log, Step("save", FALSE, cred_file))
  /\ ensure_pc' = "returned"
  /\ UNCHANGED << sessionVars, buttonVars, voiceVars, hotkeyVars, deliveryVars, parseVars, encoderVars, store, creds >>

CredentialNext ==
  \/ CredentialStoreNew
  \/ EnsureCall
  \/ EnsureRegister
  \/ EnsureToken
  \/ EnsureSave

CredentialSpec == CredentialInit /\ [][CredentialNext]_vars

----------------------------------------------------------------------------
(* client.rs 105-185: both pumps with the scheduling of the tokio runtime  *)

FairNext ==
  \/ Connect
  \/ SendStartTask
  \/ WaitTaskStarted
  \/ SendStartSession
  \/ WaitSessionStarted
  \/ Produce
  \/ CloseAudio
  \/ OutStart
  \/ OutRecv
  \/ OutSendFrame
  \/ OutSendLast
  \/ OutSendFinish
  \/ ReadEnvelope
  \/ ReadNoEnvelope
  \/ InSendTerminal
  \/ InSend
  \/ ConsumerRecvSome
  \/ ConsumerDrop

\* a spawned task is polled whenever it can make progress; the audio
\* producer and the consumer of the events are not obliged to act
OutboundFairness ==
  /\ WF_vars(OutStart)
  /\ WF_vars(OutRecv)
  /\ WF_vars(OutSendFrame)
  /\ WF_vars(OutSendLast)
  /\ WF_vars(OutSendFinish)

FairSpec == Init /\ [][FairNext]_vars /\ OutboundFairness /\ PumpFairness

----------------------------------------------------------------------------
(* client.rs 70, 161-187: the result channel from the pump to the caller,  *)
(* with the server's stream fixed in advance                               *)

InterimDoc2 == JObj([results |-> JArr(<<JObj([text |-> JStr("hello")])>>)])

WireBytes ==
  { Proto("", JsonText(HeartbeatDoc), ""),
    Proto("", JsonText(InterimDoc), ""),
    Proto("", JsonText(InterimDoc2), ""),
    Proto("SessionFinished", EmptyText, ""),
    Undecodable }

WireMessages == {Binary(b) : b \in WireBytes} \cup {OtherMessage}
WireEnds == {ReadError, StreamEnd}
MessageRuns(k) == UNION {[1..n -> WireMessages] : n \in 0..k}
\* up to MaxWire items; an error or the end of the stream can only be last
Wires ==
  MessageRuns(MaxWire)
    \cup {Append(w, e) : w \in MessageRuns(MaxWire - 1), e \in WireEnds}

\* variant: the outbound task also holds result_tx for as long as it runs
ResultTxHeld_ByOutboundTask ==
  pc \notin {"connect", "returned"} \/ out_pc \in {"spawned", "recv", "send_frame"}

\* result_tx lives from the creation of the channel (client.rs 70) until
\* start_realtime returns; result_tx_clone lives as long as the inbound task
ResultTxHeld == pc \notin {"connect", "returned"}
ResultTxCloneHeld == in_pc \in {"read", "send", "send_terminal"}
SenderHandles ==
  (IF ResultTxHeld THEN 1 ELSE 0) + (IF ResultTxCloneHeld THEN 1 ELSE 0)

DeliveryInit ==
  /\ SessionInit
  /\ ParseIdle
  /\ EncoderIdle
  /\ CredentialIdle
  /\ wire \in Wires
  /\ arrived = <<>>
  /\ rx_ended = FALSE
  /\ HotkeyIdle
  /\ VoiceIdle
  /\ ButtonIdle

\* what read.next().await yields next
NextOnWire ==
  IF stream_ended THEN {StreamEnd}
  ELSE IF wire # <<>> THEN {Head(wire)}
  ELSE {}

\* client.rs 164: the loop's read takes the next item of the stream
WireRead ==
  /\ \E r \in NextOnWire :
       /\ PumpRead(r)
       /\ arrived' = Append(arrived, r)
  /\ wire' = IF stream_ended THEN wire ELSE Tail(wire)
  /\ UNCHANGED << pump_reads, nonDeliveryVars, rx_ended >>

\* result_rx.recv().await yields None: nothing is buffered and every
\* sender has been dropped
ConsumerRecvNone ==
  /\ result.status = "ok"
  /\ ~rx_closed
  /\ ~rx_ended
  /\ result_q = <<>>
  /\ SenderHandles = 0
  /\ rx_ended' = TRUE
  /\ UNCHANGED << nonDeliveryVars, sessionVars, wire, arrived >>

DeliveryNext ==
  \/ Connect
  \/ SendStartTask
  \/ WaitTaskStarted
  \/ SendStartSession
  \/ WaitSessionStarted
  \/ WireRead
  \/ InSendTerminal
  \/ InSend
  \/ ConsumerRecv
  \/ ConsumerRecvNone
  \/ ConsumerDrop

DeliverySpec == DeliveryInit /\ [][DeliveryNext]_vars

----------------------------------------------------------------------------
(* business/hotkey_manager.rs: the hotkey listener                         *)

HotkeyConfigs ==
  [ mode : {"combo", "double_tap"},
    double_tap_key : {"Ctrl", "F9"},
    double_tap_interval : {1, 2} ]

\* hotkey_manager.rs 39-43
HotkeyMode(config) == IF config.mode = "combo" THEN "Combo" ELSE "DoubleTap"
\* str::to_lowercase() on the key names that are configured
to_lowercase(key) == IF key = "Ctrl" THEN "ctrl" ELSE IF key = "F9" THEN "f9" ELSE key
\* hotkey_manager.rs 100-102
use_keyboard_hook(config) ==
  /\ HotkeyMode(config) = "DoubleTap"
  /\ to_lowercase(config.double_tap_key) \in {"ctrl", "shift", "alt"}

\* what the handling of one key event does: whether the callback is called
\* and what is remembered afterwards
Handling(callback, last) == [callback |-> callback, last |-> last]

\* variant: the tap that triggers is remembered as the first of a new pair
double_tap_RemembersTrigger(last, now, interval) ==
  IF last.some /\ now - last.at <= interval
  THEN Handling(TRUE, SomeInstant(now))
  ELSE Handling(FALSE, SomeInstant(now))

\* hotkey_manager.rs 135-146
double_tap(last, now, interval) ==
  IF last.some /\ now - last.at <= interval
  THEN Handling(TRUE, NoInstant)
  ELSE Handling(FALSE, SomeInstant(now))

\* hotkey_manager.rs 130-148
on_event(mode, last, now, interval) ==
  IF mode = "Combo" THEN Handling(TRUE, last)
  ELSE double_tap(last, now, interval)

\* hotkey_manager.rs 238-251
on_release(last, now, interval) ==
  IF last.some
  THEN IF now - last.at <= interval
       THEN Handling(TRUE, NoInstant)
       ELSE Handling(FALSE, SomeInstant(now))
  ELSE Handling(FALSE, SomeInstant(now))

Handled(at, callback) == [at |-> at, callback |-> callback, active |-> is_active]

\* the state after HotkeyManager::new
HotkeyInit ==
  /\ SessionInit
  /\ ParseIdle
  /\ EncoderIdle
  /\ CredentialIdle
  /\ DeliveryIdle
  /\ hotkey_config \in HotkeyConfigs
  /\ is_active = TRUE
  /\ listener_pc = "not_started"
  /\ last_press_time = NoInstant
  /\ last_release = NoInstant
  /\ hotkey_events = 0
  /\ keys_sent = 0
  /\ clock = 0
  /\ handled = <<>>
  /\ VoiceIdle
  /\ ButtonIdle

\* hotkey_manager.rs 89-153: the thread is spawned; installing the keyboard
\* hook can fail, and the thread then ends
OnTrigger ==
  /\ listener_pc = "not_started"
  /\ IF use_keyboard_hook(hotkey_config)
     THEN listener_pc' \in {"hook", "ended"}
     ELSE listener_pc' = "check"
  /\ UNCHANGED << nonHotkeyVars, sessionVars, hotkey_config, is_active, last_press_time,
                  last_release, hotkey_events, keys_sent, clock, handled >>

\* hotkey_manager.rs 124-127
ListenerCheck ==
  /\ listener_pc = "check"
  /\ listener_pc' = IF ~is_active THEN "sleep" ELSE "recv"
  /\ UNCHANGED << nonHotkeyVars, sessionVars, hotkey_config, is_active, last_press_time,
                  last_release, hotkey_events, keys_sent, clock, handled >>

\* hotkey_manager.rs 125-126: the sleep is over, the loop continues
ListenerSleep ==
  /\ listener_pc = "sleep"
  /\ listener_pc' = "check"
  /\ UNCHANGED << nonHotkeyVars, sessionVars, hotkey_config, is_active, last_press_time,
                  last_release, hotkey_events, keys_sent, clock, handled >>

\* the registered hotkey is pressed: an event is put into the receiver
HotkeyEvent ==
  /\ ~use_keyboard_hook(hotkey_config)
  /\ keys_sent < MaxKeyEvents
  /\ keys_sent' = keys_sent + 1
  /\ hotkey_events' = hotkey_events + 1
  /\ UNCHANGED << nonHotkeyVars, sessionVars, hotkey_config, is_active, listener_pc,
                  last_press_time, last_release, clock, handled >>

\* hotkey_manager.rs 129-149: receiver.recv() returns an event
ListenerRecv ==
  /\ listener_pc = "recv"
  /\ hotkey_events > 0
  /\ hotkey_events' = hotkey_events - 1
  /\ LET h == on_event(HotkeyMode(hotkey_config), last_press_time, clock,
                       hotkey_config.double_tap_interval)
     IN /\ last_press_time' = h.last
        /\ handled' = Append(handled, Handled(clock, h.callback))
  /\ listener_pc' = "check"
  /\ UNCHANGED << nonHotkeyVars, sessionVars, hotkey_config, is_active, last_release,
                  keys_sent, clock >>

\* hotkey_manager.rs 222-258: the hook procedure is called for a key event
keyboard_hook_proc ==
  /\ listener_pc = "hook"
  /\ keys_sent < MaxKeyEvents
  /\ keys_sent' = keys_sent + 1
  /\ \E is_target \in BOOLEAN, is_key_up \in BOOLEAN :
       IF is_active /\ is_target /\ is_key_up
       THEN LET h == on_release(last_release, clock,
                                hotkey_config.double_tap_interval)
            IN /\ last_release' = h.last
               /\ handled' = Append(handled, Handled(clock, h.callback))
       ELSE UNCHANGED << last_release, handled >>
  /\ UNCHANGED << nonHotkeyVars, sessionVars, hotkey_config, is_active, listener_pc,
                  last_press_time, hotkey_events, clock >>

\* hotkey_manager.rs 156-158
HotkeyStop ==
  /\ is_active
  /\ is_active' = FALSE
  /\ UNCHANGED << nonHotkeyVars, sessionVars, hotkey_config, listener_pc, last_press_time,
                  last_release, hotkey_events, keys_sent, clock, handled >>

\* time passes
Tick ==
  /\ clock < MaxClock
  /\ clock' = clock + 1
  /\ UNCHANGED << nonHotkeyVars, sessionVars, hotkey_config, is_active, listener_pc,
                  last_press_time, last_release, hotkey_events, keys_sent, handled >>

HotkeyNext ==
  \/ OnTrigger
  \/ ListenerCheck
  \/ ListenerSleep
  \/ HotkeyEvent
  \/ ListenerRecv
  \/ keyboard_hook_proc
  \/ HotkeyStop
  \/ Tick

HotkeySpec == HotkeyInit /\ [][HotkeyNext]_vars

----------------------------------------------------------------------------
(* Vocabulary of the properties                                            *)

Transmitted(e) == e.ok
\* the envelopes that reached the wire, in order
Wire == SelectSeq(send_log, Transmitted)
NoSendFailure == \A i \in 1..Len(send_log) : send_log[i].ok

MethodAt(log, i) == log[i].msg.method_name
IsRealFrame(e) ==
  e.msg.method_name = "TaskRequest" /\ e.msg.frame_state \in {"First", "Middle"}
IsLastFrame(e) ==
  e.msg.method_name = "TaskRequest" /\ e.msg.frame_state = "Last"
IsFinish(e) == e.msg.method_name = "FinishSession"
IsTaskRequest(e) == e.msg.method_name = "TaskRequest"

IsStartTask(e) == e.msg.method_name = "StartTask"
IsStartSession(e) == e.msg.method_name = "StartSession"
\* the envelope is a TaskRequest stamped with frame index k
HasFrameIndex(e, k) ==
  e.msg.payload.timestamp_ms = start_time + k * FRAME_DURATION_MS

Streaming == out_pc # "not_spawned"
Terminal(resp) == resp.response_type \in {"Error", "SessionFinished"}
Count(seq, P(_)) == Cardinality({i \in 1..Len(seq) : P(seq[i])})

----------------------------------------------------------------------------
(* C1: when N >= 1 frames were enqueued before the audio channel closed    *)
(* and no send failed, the sends of the finished session are exactly       *)
(* StartTask, StartSession, N TaskRequests (First, then Middle), one Last  *)
(* TaskRequest, FinishSession, and nothing follows FinishSession.          *)
C1_ExactEnvelopeSequence ==
  (out_pc = "done" /\ audio_closed /\ NoSendFailure /\ produced >= 1) =>
    /\ Len(send_log) = produced + 4
    /\ MethodAt(send_log, 1) = "StartTask"
    /\ MethodAt(send_log, 2) = "StartSession"
    /\ \A i \in 1..produced :
         /\ MethodAt(send_log, 2 + i) = "TaskRequest"
         /\ send_log[2 + i].msg.frame_state = (IF i = 1 THEN "First" ELSE "Middle")
    /\ IsLastFrame(send_log[produced + 3])
    /\ MethodAt(send_log, produced + 4) = "FinishSession"

C1_Witness ==
  out_pc = "done" /\ audio_closed /\ NoSendFailure /\ produced = MaxFrames

----------------------------------------------------------------------------
(* C2 as stated: every session that reached Streaming and whose audio      *)
(* channel was closed ends with exactly one Last TaskRequest carrying the  *)
(* zero payload followed by exactly one FinishSession, also after zero     *)
(* real frames.                                                            *)
EndsWithLastAndFinish ==
  /\ Len(send_log) >= 2
  /\ IsLastFrame(send_log[Len(send_log) - 1])
  /\ send_log[Len(send_log) - 1].msg.audio_data = SilentFrame
  /\ IsFinish(send_log[Len(send_log)])
  /\ Count(send_log, IsLastFrame) = 1
  /\ Count(send_log, IsFinish) = 1

----------------------------------------------------------------------------
(* C3: no Heartbeat event is ever placed on the result channel or          *)
(* delivered to the caller.                                                *)
IsHeartbeat(resp) == resp.response_type = "Heartbeat"

C3_NoHeartbeatForwarded ==
  /\ Count(forwarded, IsHeartbeat) = 0
  /\ Count(result_q, IsHeartbeat) = 0
  /\ Count(delivered, IsHeartbeat) = 0

\* the pump has read a Heartbeat after it forwarded another event
C3_Witness ==
  in_pc = "read" /\ IsHeartbeat(response) /\ Len(forwarded) = 1

----------------------------------------------------------------------------
(* C4 as stated: once the pump has handled an Error or SessionFinished     *)
(* envelope, that event is on the result channel exactly once, as the      *)
(* last event.                                                             *)
TerminalForwardedOnce ==
  /\ forwarded # <<>>
  /\ forwarded[Len(forwarded)] = response
  /\ Count(forwarded, Terminal) = 1

C4_AsStated ==
  (in_pc = "done" /\ Terminal(response)) => TerminalForwardedOnce

(* C4 amended: the pump that handled an Error or SessionFinished envelope  *)
(* has forwarded it exactly once, as the last event, unless the caller had *)
(* dropped the receiver, in which case it forwarded nothing; either way it *)
(* has terminated: it reads and forwards nothing more, and the caller is   *)
(* delivered nothing after a terminal event.                               *)
C4_State ==
  /\ (in_pc = "done" /\ Terminal(response)) =>
        \/ TerminalForwardedOnce
        \/ rx_closed /\ Count(forwarded, Terminal) = 0
  /\ \A i \in 1..Len(forwarded) : Terminal(forwarded[i]) => i = Len(forwarded)
  /\ \A i \in 1..Len(delivered) : Terminal(delivered[i]) => i = Len(delivered)

C4_Step ==
  /\ in_pc = "send_terminal" => in_pc' \in {"send_terminal", "done"}
  /\ (in_pc = "send_terminal" /\ in_pc' = "done" /\ ~rx_closed) =>
        forwarded' = Append(forwarded, response)
  /\ in_pc = "done" =>
        in_pc' = "done" /\ pump_reads' = pump_reads /\ forwarded' = forwarded

\* C4 amended, in full: the state part in every state, the step part in
\* every step
C4_TerminalForwardedThenStop == [](C4_State) /\ [][C4_Step]_vars

\* the terminal event arrived second and has been delivered
C4_Witness ==
  /\ in_pc = "done" /\ Terminal(response)
  /\ Len(delivered) = 2 /\ delivered[2] = response

----------------------------------------------------------------------------
(* C5: in every run, failed handshakes and failed sends included, the      *)
(* envelopes that reach the wire are ordered StartTask, StartSession, the  *)
(* TaskRequests, FinishSession, and the TaskRequests carry the frame       *)
(* indexes 0, 1, 2, ... with none skipped or repeated.                     *)
MethodRank(e) ==
  IF IsStartTask(e) THEN 0
  ELSE IF IsStartSession(e) THEN 1
  ELSE IF IsTaskRequest(e) THEN 2
  ELSE 3

C5_TransmitOrder ==
  LET tasks == SelectSeq(Wire, IsTaskRequest) IN
  /\ \A i, j \in 1..Len(Wire) : i < j => MethodRank(Wire[i]) <= MethodRank(Wire[j])
  /\ Count(Wire, IsStartTask) <= 1
  /\ Count(Wire, IsStartSession) <= 1
  /\ Count(Wire, IsFinish) <= 1
  /\ Count(Wire, IsStartSession) = 1 => Count(Wire, IsStartTask) = 1
  /\ Len(tasks) > 0 => Count(Wire, IsStartSession) = 1
  /\ \A k \in 1..Len(tasks) : HasFrameIndex(tasks[k], k - 1)

\* a run in which the send of a real frame failed and later sends succeeded
C5_Witness ==
  /\ out_pc = "done"
  /\ \E i \in 1..Len(send_log) : IsRealFrame(send_log[i]) /\ ~send_log[i].ok
  /\ Count(Wire, IsTaskRequest) >= 2
  /\ Count(Wire, IsFinish) = 1

----------------------------------------------------------------------------
(* C6: when the audio channel is closed while frames are still buffered or *)
(* being sent, and no send fails, every frame enqueued before the closure  *)
(* is sent exactly once, in order, before the Last frame: the pump sends   *)
(* the k real frames, then one Last, then one FinishSession.               *)
C6_NoFrameLostAtClosure ==
  (out_pc = "done" /\ NoSendFailure /\ pending_at_close >= 1) =>
    /\ Len(send_log) = produced + 4
    /\ \A i \in 1..produced :
         /\ IsRealFrame(send_log[2 + i])
         /\ send_log[2 + i].msg.audio_data = Frame(i)
    /\ Count(send_log, IsRealFrame) = produced
    /\ IsLastFrame(send_log[produced + 3])
    /\ IsFinish(send_log[produced + 4])

\* the channel was closed with at least two frames not yet sent
C6_Witness ==
  /\ out_pc = "done" /\ NoSendFailure
  /\ pending_at_close >= 2 /\ produced = MaxFrames

----------------------------------------------------------------------------
(* C7: a connection failure or a handshake reply classified Error makes    *)
(* start_realtime return a failure (with the server's status message for a *)
(* rejected handshake); no later-stage envelope is sent, no pump is        *)
(* spawned and no result channel is handed out.                            *)
C7_HandshakeFailureSynchronous ==
  /\ rejection.kind = "binary" =>
       /\ pc = "returned"
       /\ result.status = "err"
       /\ result.stage = (IF Count(send_log, IsStartSession) = 0
                          THEN "StartTask failed" ELSE "StartSession failed")
       /\ rejection.data.decodes => result.error_msg = rejection.data.status_message
       /\ ~rejection.data.decodes => result.error_msg = "Decode error"
       /\ Len(send_log) \in {1, 2}
  /\ result.status = "err" =>
       /\ out_pc = "not_spawned"
       /\ in_pc = "not_spawned"
       /\ Count(send_log, IsTaskRequest) = 0
       /\ Count(send_log, IsFinish) = 0
       /\ forwarded = <<>> /\ result_q = <<>> /\ delivered = <<>>
       /\ result.stage = "connect" => send_log = <<>>

\* the server rejected StartSession with a status message
C7_Witness ==
  /\ rejection.kind = "binary" /\ rejection.data.decodes
  /\ result.status = "err"
  /\ result.stage = "StartSession failed"
  /\ Len(send_log) = 2

----------------------------------------------------------------------------
(* C8 as stated: each handshake wait is left only with a received envelope *)
(* that is not classified Error; when the connection is lost during a wait *)
(* (the stream ends or a read fails) start_realtime returns a failure and  *)
(* Streaming is never entered.                                             *)
C8_AsStated ==
  /\ pc = "send_start_session" => last_read = "binary"
  /\ (Streaming /\ pump_reads = 0) => last_read = "binary"
  /\ (stream_ended /\ pump_reads = 0) => (result.status = "err" /\ ~Streaming)

----------------------------------------------------------------------------
(* C9 as stated: a failure after Streaming began reaches the caller as a   *)
(* terminal Error event: the inbound pump that stopped on a read error or  *)
(* on the end of the stream has forwarded an Error event last, and so has  *)
(* a session whose frame send failed once both pumps have stopped.         *)
LastForwardedIsError ==
  forwarded # <<>> /\ forwarded[Len(forwarded)].response_type = "Error"

C9_AsStated ==
  /\ (in_pc = "done" /\ ~Terminal(response) /\ ~rx_closed) => LastForwardedIsError
  /\ (in_pc = "done" /\ out_pc = "done" /\ ~rx_closed
        /\ \E i \in 1..Len(send_log) : IsTaskRequest(send_log[i]) /\ ~send_log[i].ok)
       => LastForwardedIsError

----------------------------------------------------------------------------
(* C10 as stated: after the send of a real frame failed the outbound pump  *)
(* attempts no further send.                                               *)
C10_AsStated ==
  \A i \in 1..Len(send_log) :
    (IsRealFrame(send_log[i]) /\ ~send_log[i].ok) => i = Len(send_log)

----------------------------------------------------------------------------
(* Vocabulary of the properties of parse_response                          *)

Returned == parse_pc = "returned"
\* the call got as far as the JSON document of result_json
ReachesDocument ==
  /\ data.decodes
  /\ data.message_type \notin RecognisedTypes
  /\ data.result_json.text = "json"
TheDocument == data.result_json.doc
HasKey(v, k) == v.t = "obj" /\ k \in DOMAIN v.o
\* the member is the JSON boolean b
MemberIs(v, k, b) == HasKey(v, k) /\ v.o[k] = JBool(b)
VadStartMarked ==
  HasKey(TheDocument, "extra") /\ MemberIs(TheDocument.o["extra"], "vad_start", TRUE)
HasResultsArray ==
  HasKey(TheDocument, "results") /\ TheDocument.o["results"].t = "arr"
TheResults == TheDocument.o["results"].a
NonstreamEntry(r) ==
  HasKey(r, "extra") /\ MemberIs(r.o["extra"], "nonstream_result", TRUE)

(* C13: for a document with a "results" array and no true VAD-start        *)
(* marker, parse_response returns FinalResult with is_final true exactly   *)
(* when some entry has extra.nonstream_result = true, or some entry has    *)
(* is_interim = false and some entry (maybe another one) has               *)
(* is_vad_finished = true; otherwise it returns InterimResult with         *)
(* is_final false.                                                         *)
FinalCondition ==
  \/ \E i \in 1..Len(TheResults) : NonstreamEntry(TheResults[i])
  \/ /\ \E i \in 1..Len(TheResults) : MemberIs(TheResults[i], "is_interim", FALSE)
     /\ \E j \in 1..Len(TheResults) : MemberIs(TheResults[j], "is_vad_finished", TRUE)
C13_FinalExactlyWhenFlagsAccumulate ==
  (Returned /\ ReachesDocument /\ HasResultsArray /\ ~VadStartMarked)
    => IF FinalCondition
       THEN parsed.response_type = "FinalResult" /\ parsed.is_final
       ELSE parsed.response_type = "InterimResult" /\ ~parsed.is_final
\* FinalResult from flags that no single entry carries together
C13_Witness ==
  /\ Returned /\ ReachesDocument /\ HasResultsArray /\ ~VadStartMarked
  /\ parsed.response_type = "FinalResult"
  /\ \A i \in 1..Len(TheResults) :
       /\ ~NonstreamEntry(TheResults[i])
       /\ ~(MemberIs(TheResults[i], "is_interim", FALSE)
            /\ MemberIs(TheResults[i], "is_vad_finished", TRUE))

HasStringText(r) == HasKey(r, "text") /\ r.o["text"].t = "str"
\* indices of the entries that have a string "text" member
TextEntries == {i \in 1..Len(TheResults) : HasStringText(TheResults[i])}

(* C14: for every "results" array the text of the InterimResult or         *)
(* FinalResult event is the text member of the last entry that has a       *)
(* string text member (a later text overwrites an earlier one, texts are   *)
(* never joined), and the empty string when no entry has one.              *)
C14_TextOfLastTextEntry ==
  (Returned /\ ReachesDocument /\ HasResultsArray /\ ~VadStartMarked)
    => /\ parsed.response_type \in {"InterimResult", "FinalResult"}
       /\ IF TextEntries = {} THEN parsed.text = ""
          ELSE \E i \in TextEntries :
                 /\ \A j \in TextEntries : j <= i
                 /\ parsed.text = TheResults[i].o["text"].s
\* two entries with different texts: the later one is the event's text
C14_Witness ==
  /\ Returned /\ ReachesDocument /\ HasResultsArray /\ ~VadStartMarked
  /\ \E i, j \in TextEntries :
       /\ i < j
       /\ TheResults[i].o["text"].s # TheResults[j].o["text"].s
       /\ parsed.text = TheResults[j].o["text"].s

\* the packet_number member of the document's "extra" object, JNone if absent
PacketNumberMember ==
  IF HasKey(TheDocument, "extra") /\ HasKey(TheDocument.o["extra"], "packet_number")
  THEN TheDocument.o["extra"].o["packet_number"]
  ELSE JNone
\* a 32-bit signed number written as a 64-bit one, in 16-bit limbs
Widen(n) ==
  IF n >= 0 THEN << n % 65536, n \div 65536, 0, 0 >>
  ELSE << n % 65536, (n \div 65536) % 65536, 65535, 65535 >>
HeartbeatIffNoResultsKey ==
  (Returned /\ ReachesDocument)
    => (parsed.response_type = "Heartbeat" <=> ~HasKey(TheDocument, "results"))

(* C15: for an envelope that reaches the inner layer with a valid JSON     *)
(* document, parse_response returns Heartbeat exactly when the document    *)
(* has no "results" key, and the Heartbeat's packet_number is the integer  *)
(* extra.packet_number when that is present and -1 when the "extra"        *)
(* object or the member is absent.                                         *)
C15_AsStated ==
  /\ HeartbeatIffNoResultsKey
  /\ (Returned /\ ReachesDocument /\ parsed.response_type = "Heartbeat")
       => /\ PacketNumberMember.t = "int"
               => Widen(parsed.packet_number) = PacketNumberMember.limbs
          /\ PacketNumberMember.t = "none"
               => parsed.packet_number = DEFAULT_PACKET_NUMBER

HandshakeTypes == {"TaskStarted", "SessionStarted", "SessionFinished"}
FailureTypes == {"TaskFailed", "SessionFailed"}

(* C16: for every decodable envelope, a message_type of TaskStarted,       *)
(* SessionStarted or SessionFinished yields the event of that name and     *)
(* nothing else of the envelope matters; TaskFailed or SessionFailed       *)
(* yields Error whose error_msg is the envelope's status_message; only for *)
(* any other message_type does the event depend on result_json, and then   *)
(* on nothing but result_json.                                             *)
C16_MessageTypeDecidesFirst ==
  (Returned /\ data.decodes)
    => /\ data.message_type \in HandshakeTypes
            => parsed = [DefaultResponse EXCEPT !.response_type = data.message_type]
       /\ data.message_type \in FailureTypes
            => parsed = [DefaultResponse EXCEPT !.response_type = "Error",
                           !.error_msg = data.status_message]
       /\ data.message_type \notin HandshakeTypes \cup FailureTypes
            => /\ parsed = parse_response(Proto("", data.result_json, ""))
               /\ parse_response(Proto(data.message_type, EmptyText, ""))
                    # parse_response(Proto(data.message_type,
                                           JsonText(Document(JNone, JNone)), ""))
\* a SessionFailed envelope that also carries a final result document
C16_Witness ==
  /\ Returned /\ data.decodes
  /\ data.message_type = "SessionFailed"
  /\ data.status_message = "quota exceeded"
  /\ data.result_json = JsonText(Document(JArr(<<FinalEntry>>), JNone))
  /\ parsed.response_type = "Error"
  /\ parsed.error_msg = "quota exceeded"

(* C17: for a document that has a "results" key and whose top-level        *)
(* extra.vad_start is true, parse_response returns VadStart (vad_start     *)
(* true, empty text) whatever "results" holds, entries that would          *)
(* classify FinalResult included; a document without a "results" key is a  *)
(* Heartbeat even when extra.vad_start is true, the Heartbeat check coming *)
(* first.                                                                  *)
C17_VadStartBeforeResults ==
  (Returned /\ ReachesDocument /\ VadStartMarked)
    => IF HasKey(TheDocument, "results")
       THEN parsed = [DefaultResponse EXCEPT !.response_type = "VadStart",
                        !.vad_start = TRUE, !.raw_json = TheDocument]
       ELSE parsed.response_type = "Heartbeat" /\ ~parsed.vad_start
\* VadStart for a document whose only entry is a final result
C17_Witness ==
  /\ Returned /\ ReachesDocument /\ VadStartMarked
  /\ HasResultsArray /\ TheResults = <<FinalEntry>>
  /\ parsed.response_type = "VadStart" /\ parsed.vad_start /\ parsed.text = ""
  /\ ParseResults(TheDocument).response_type = "FinalResult"

ResponseTypes ==
  {"TaskStarted", "SessionStarted", "SessionFinished", "VadStart",
   "InterimResult", "FinalResult", "Heartbeat", "Error", "Unknown"}
\* the envelope decodes and its message_type is none of the five named ones
ReachesInnerLayer == data.decodes /\ data.message_type \notin RecognisedTypes

(* C18: parse_response is total: every call returns, with exactly one      *)
(* event of one of the nine types; bytes that do not decode as a response  *)
(* envelope yield Error; in an envelope whose message_type is neither a    *)
(* handshake nor a failure type, a non-empty result_json that is not valid *)
(* JSON yields Unknown and an empty result_json yields Unknown.            *)
C18_ParseResponseTotal ==
  /\ parse_pc = "called" => ENABLED ParseCall
  /\ Returned
       => /\ parsed.response_type \in ResponseTypes
          /\ DOMAIN parsed = DOMAIN DefaultResponse
          /\ ~data.decodes => parsed.response_type = "Error"
          /\ (ReachesInnerLayer /\ data.result_json.text = "invalid")
               => parsed = DefaultResponse
          /\ (ReachesInnerLayer /\ data.result_json.text = "empty")
               => parsed = DefaultResponse
\* an envelope that decodes but whose result_json is not JSON
C18_Witness ==
  /\ Returned /\ ReachesInnerLayer
  /\ data.result_json = InvalidJson
  /\ parsed.response_type = "Unknown"

----------------------------------------------------------------------------
(* Malformed and unrecognised inbound envelopes                            *)

\* the event parse_response returns for bytes that do not decode
IsDecodeError(resp) ==
  resp.response_type = "Error" /\ resp.error_msg = "Decode error"
\* the event it returns for a result_json that is empty or not JSON
IsUnknown(resp) == resp = DefaultResponse
FromMalformedInput(resp) == IsDecodeError(resp) \/ IsUnknown(resp)

(* C11: a malformed inbound envelope or inner result document received     *)
(* during Streaming is non-fatal to the inbound pump: once the Error or    *)
(* Unknown event made from it has been forwarded, the pump is still        *)
(* running, unless the connection has ended or the caller has closed the   *)
(* output queue since.                                                     *)
C11_AsStated ==
  ( /\ forwarded # <<>>
    /\ FromMalformedInput(forwarded[Len(forwarded)])
    /\ ~stream_ended
    /\ ~rx_closed )
    => in_pc # "done"

(* C19: an envelope whose message_type is none of TaskStarted,             *)
(* SessionStarted, SessionFinished, TaskFailed, SessionFailed is           *)
(* classified Unknown and is not an event that ends the inbound pump.      *)
C19_AsStated ==
  (Returned /\ ReachesInnerLayer)
    => /\ parsed.response_type = "Unknown"
       /\ PumpRoute(parsed.response_type) # "send_terminal"

(* C19, amended: such an envelope is classified by its result_json alone:  *)
(* Unknown exactly when result_json is empty or not valid JSON, and        *)
(* Heartbeat, VadStart, InterimResult or FinalResult when it is a JSON     *)
(* document; none of these events ends the inbound pump's loop by its      *)
(* type (a Heartbeat is skipped, the others are forwarded).                *)
C19_ClassifiedByResultJson ==
  (Returned /\ ReachesInnerLayer)
    => /\ parsed.response_type = "Unknown"
            <=> data.result_json.text \in {"empty", "invalid"}
       /\ data.result_json.text = "json"
            => parsed.response_type
                 \in {"Heartbeat", "VadStart", "InterimResult", "FinalResult"}
       /\ PumpRoute(parsed.response_type)
            = IF parsed.response_type = "Heartbeat" THEN "read" ELSE "send"
\* an unrecognised message_type whose result_json holds a final result
C19_Witness ==
  /\ Returned /\ ReachesInnerLayer
  /\ data.message_type = "Result"
  /\ data.result_json = JsonText(Document(JArr(<<FinalEntry>>), JNone))
  /\ parsed.response_type = "FinalResult"
  /\ PumpRoute(parsed.response_type) = "send"

----------------------------------------------------------------------------
(* The inbound pump after the caller has closed the output queue           *)

PumpRunning == in_pc \in {"read", "send", "send_terminal"}

(* C12: if the caller closes the output event queue during Streaming then, *)
(* as long as the server keeps sending envelopes, the inbound pump         *)
(* eventually terminates.                                                  *)
C12_AsStated == (rx_closed /\ PumpRunning) ~> (in_pc = "done")

(* C12, amended: after the caller has closed the output queue the inbound  *)
(* pump terminates when it next tries to forward an event, that is at the  *)
(* first envelope not classified Heartbeat, or when the connection ends;   *)
(* it does so silently: nothing is forwarded any more and the result of    *)
(* start_realtime stays Ok. Heartbeats and non-binary messages leave it    *)
(* reading. While the queue is open a non-terminal event that the pump     *)
(* sends is forwarded and the pump reads on.                               *)
C12_Step ==
  /\ rx_closed => (forwarded' = forwarded /\ result' = result)
  /\ (rx_closed /\ in_pc = "read" /\ in_pc' = "done") => stream_ended'
  /\ (rx_closed /\ in_pc \in {"send", "send_terminal"} /\ in_pc' # in_pc)
       => in_pc' = "done"
  /\ (~rx_closed /\ in_pc = "send" /\ in_pc' # in_pc)
       => (forwarded' = Append(forwarded, response) /\ in_pc' = "read")
C12_TerminatesAtNextForward ==
  /\ (rx_closed /\ in_pc \in {"send", "send_terminal"}) ~> (in_pc = "done")
  /\ [][C12_Step]_vars
\* the pump has ended on a failed send while the connection is still open
C12_Witness ==
  /\ rx_closed /\ in_pc = "done" /\ ~stream_ended
  /\ PumpRoute(response.response_type) = "send"
  /\ result = Ok
  /\ forwarded # <<>>

----------------------------------------------------------------------------
(* Properties of OpusEncoder::encode                                       *)

ExpectedSamples == encoder.frame_size * encoder.channels
\* the calls, in order, whose input held at least one whole frame
RECURSIVE AcceptedFrames(_)
AcceptedFrames(log) ==
  IF log = <<>> THEN <<>>
  ELSE LET call == log[Len(log)]
           before == AcceptedFrames(SubSeq(log, 1, Len(log) - 1))
       IN IF call.pcm_data.bytes \div 2 >= ExpectedSamples
          THEN Append(before, [samples |-> ExpectedSamples,
                               tag |-> call.pcm_data.tag])
          ELSE before

(* C20: encode called with fewer than frame_size x channels samples (319   *)
(* when 320 are required) returns the not-enough-samples error and no      *)
(* output bytes; the short input is neither padded nor kept for a later    *)
(* call: the codec has consumed exactly the frames of the calls that       *)
(* brought enough samples, and a later call returns what it would have     *)
(* returned without the short one.                                         *)
C20_ShortInputRejected ==
  encoder.status = "ok"
    => /\ \A i \in 1..Len(encode_log) :
            encode_log[i].pcm_data.bytes \div 2 < ExpectedSamples
              => /\ encode_log[i].result.status = "err"
                 /\ encode_log[i].result.error = "Not enough samples"
                 /\ encode_log[i].result.got = encode_log[i].pcm_data.bytes \div 2
                 /\ encode_log[i].result.expected = ExpectedSamples
                 /\ encode_log[i].result.output = <<>>
       /\ encoder.codec = AcceptedFrames(encode_log)
       /\ \A i \in 1..Len(encode_log) :
            encode_log[i].result.status = "ok"
              => encode_log[i].result.output
                   = << [ frame |-> [samples |-> ExpectedSamples,
                                     tag |-> encode_log[i].pcm_data.tag],
                          position |-> Len(AcceptedFrames(SubSeq(encode_log, 1, i))) ] >>
\* 319 samples offered to a 16 kHz mono encoder, then a full frame
C20_Witness ==
  /\ encoder.status = "ok"
  /\ encoder.sample_rate = 16000 /\ encoder.channels = 1
  /\ ExpectedSamples = 320
  /\ Len(encode_log) = 2
  /\ encode_log[1].pcm_data.bytes = 638
  /\ encode_log[1].result.status = "err"
  /\ encode_log[1].result.got = 319
  /\ encode_log[2].result.status = "ok"
  /\ encode_log[2].result.output[1].position = 1

(* C21: encode accepts an input only when it holds exactly frame_size x    *)
(* channels samples: every call with another sample count, fewer or more,  *)
(* returns an error and no output frame.                                   *)
C21_AsStated ==
  encoder.status = "ok"
    => \A i \in 1..Len(encode_log) :
         encode_log[i].pcm_data.bytes \div 2 # ExpectedSamples
           => /\ encode_log[i].result.status = "err"
              /\ encode_log[i].result.output = <<>>

----------------------------------------------------------------------------
(* Properties of the envelopes of one session                              *)

TimestampOf(e) == e.msg.payload.timestamp_ms
\* the TaskRequests that reached the wire, in order
WireTasks == SelectSeq(Wire, IsTaskRequest)

(* C22: within one session the i-th transmitted TaskRequest (i from 0) is  *)
(* stamped start_time + i * 20 ms, start_time being the one value sampled  *)
(* when the outbound pump started; the Last frame after N transmitted real *)
(* frames is stamped start_time + N * 20; so the transmitted timestamps    *)
(* increase strictly and consecutive ones differ by exactly 20 ms.         *)
C22_TimestampsFromOneStart ==
  /\ \A k \in 1..Len(WireTasks) :
       TimestampOf(WireTasks[k]) = start_time + (k - 1) * FRAME_DURATION_MS
  /\ \A k \in 1..Len(WireTasks) :
       IsLastFrame(WireTasks[k])
         => TimestampOf(WireTasks[k])
              = start_time + Count(Wire, IsRealFrame) * FRAME_DURATION_MS
  /\ \A k \in 1..(Len(WireTasks) - 1) :
       TimestampOf(WireTasks[k + 1]) - TimestampOf(WireTasks[k]) = FRAME_DURATION_MS
  /\ \A i \in 1..Len(send_log) :
       IsTaskRequest(send_log[i])
         => \E n \in 0..MaxFrames :
              TimestampOf(send_log[i]) = start_time + n * FRAME_DURATION_MS
\* two real frames and the Last one on the wire, stamped from 1013
C22_Witness ==
  /\ out_pc = "done"
  /\ start_time = 1013
  /\ Len(WireTasks) = 3
  /\ IsLastFrame(WireTasks[3])
  /\ TimestampOf(WireTasks[1]) = 1013
  /\ TimestampOf(WireTasks[3]) = 1053

(* C23: the request id is generated once per call of start_realtime and    *)
(* every envelope sent in that session (StartTask, StartSession, every     *)
(* TaskRequest, the Last one included, FinishSession) carries that id.     *)
C23_OneRequestId ==
  /\ pc # "connect" => request_id \in RequestIds
  /\ \A i \in 1..Len(send_log) : send_log[i].msg.request_id = request_id
  /\ \A i, j \in 1..Len(send_log) :
       send_log[i].msg.request_id = send_log[j].msg.request_id
\* a complete session under the id uuid-b
C23_Witness ==
  /\ out_pc = "done"
  /\ request_id = "uuid-b"
  /\ Count(Wire, IsStartTask) = 1
  /\ Count(Wire, IsStartSession) = 1
  /\ Count(Wire, IsRealFrame) >= 2
  /\ Count(Wire, IsLastFrame) = 1
  /\ Count(Wire, IsFinish) = 1

ControlMethods == {"StartTask", "StartSession", "FinishSession"}

(* C24: every envelope sent has service_name "ASR"; audio_data is empty in *)
(* every envelope whose method is not TaskRequest; frame_state is          *)
(* Unspecified in StartTask, StartSession and FinishSession and one of     *)
(* First, Middle, Last in every TaskRequest; StartTask, StartSession and   *)
(* FinishSession carry the bearer token.                                   *)
C24_EnvelopeFields ==
  \A i \in 1..Len(send_log) :
    LET m == send_log[i].msg IN
    /\ m.service_name = "ASR"
    /\ m.method_name \in ControlMethods \cup {"TaskRequest"}
    /\ m.method_name # "TaskRequest" => m.audio_data = <<>>
    /\ m.method_name \in ControlMethods
         => (m.frame_state = "Unspecified" /\ m.token = Token)
    /\ m.method_name = "TaskRequest"
         => m.frame_state \in {"First", "Middle", "Last"}
\* all four methods sent, the Last frame carrying the silent payload
C24_Witness ==
  /\ out_pc = "done"
  /\ \E i \in 1..Len(send_log) :
       IsLastFrame(send_log[i]) /\ send_log[i].msg.audio_data = SilentFrame
  /\ \E i \in 1..Len(send_log) :
       IsFinish(send_log[i]) /\ send_log[i].msg.token = Token
  /\ \E i \in 1..Len(send_log) :
       IsStartSession(send_log[i]) /\ send_log[i].msg.token = Token
  /\ \E i \in 1..Len(send_log) :
       IsRealFrame(send_log[i]) /\ send_log[i].msg.audio_data # <<>>

----------------------------------------------------------------------------
(* Properties of CredentialStore::ensure_credentials                       *)

EnsureSucceeded == ensure_pc = "returned" /\ ensure_result.status = "ok"

(* C25: whenever ensure_credentials returns successfully, the credentials  *)
(* it returns, and those it has saved, have a non-empty device_id and a    *)
(* non-empty token, whatever the registration and settings endpoints       *)
(* answered.                                                               *)
C25_AsStated ==
  EnsureSucceeded
    => /\ ensure_result.creds.device_id # ""
       /\ ensure_result.creds.token # ""
       /\ ensure_result.creds = creds
            => (cred_file.creds.device_id # "" /\ cred_file.creds.token # "")

----------------------------------------------------------------------------
(* Termination of the two pumps                                            *)

OutboundRunning == out_pc \notin {"not_spawned", "done"}

(* C26: once the audio input queue is closed and every transmit completes  *)
(* the outbound pump eventually terminates; the inbound pump eventually    *)
(* terminates once it has received a terminal event or the connection has  *)
(* ended; and while no cause has occurred neither pump has terminated.     *)
C26_OutboundTerminates == (audio_closed /\ OutboundRunning) ~> (out_pc = "done")
\* the inbound pump holds a terminal event, or the connection has ended
InboundCause == in_pc = "send_terminal" \/ (stream_ended /\ PumpRunning)
\* the pump is not waiting to forward into a full queue that is still open
NotSuspendedOnFullQueue ==
  in_pc = "read" \/ rx_closed \/ Len(result_q) < ResultCapacity
C26_NoCauseNoTermination ==
  [](/\ out_pc = "done" => (audio_closed \/ ~NoSendFailure)
     /\ in_pc = "done" => (Terminal(response) \/ stream_ended \/ rx_closed))
C26_AsStated ==
  /\ C26_OutboundTerminates
  /\ InboundCause ~> (in_pc = "done")
  /\ C26_NoCauseNoTermination

(* C26 as amended: the inbound pump eventually terminates once it holds a  *)
(* terminal event or the connection has ended, provided it is not          *)
(* suspended forwarding into a full output queue that is still open; the   *)
(* outbound part and the no-cause part are as stated.                      *)
C26_PumpsTerminateOnCauses ==
  /\ C26_OutboundTerminates
  /\ (InboundCause /\ NotSuspendedOnFullQueue) ~> (in_pc = "done")
  /\ C26_NoCauseNoTermination
C26_Witness ==
  /\ out_pc = "done" /\ audio_closed /\ NoSendFailure /\ frame_index > 0
  /\ in_pc = "done" /\ Terminal(response) /\ ~rx_closed /\ ~stream_ended
  /\ forwarded # <<>> /\ forwarded[Len(forwarded)] = response

----------------------------------------------------------------------------
(* Ownership of the connection and of the queue endpoints                  *)

HandshakeRunning == pc # "returned"
NoPumpSpawned == out_pc = "not_spawned" /\ in_pc = "not_spawned"
WritesConnection == send_log' # send_log
ReadsConnection ==
  \/ pump_reads' # pump_reads
  \/ last_read' # last_read
  \/ stream_ended' # stream_ended
ConsumesAudio == Len(audio_q') < Len(audio_q)
FeedsOutput == forwarded' # forwarded \/ Len(result_q') > Len(result_q)
\* what only the outbound pump touches, and what only the inbound pump does
OutboundState == << outVars, send_log, audio_q >>
InboundState == << inVars, last_read, stream_ended, forwarded >>
OutboundStep ==
  /\ ~HandshakeRunning
  /\ OutboundRunning
  /\ UNCHANGED InboundState
  /\ Len(result_q') <= Len(result_q)
InboundStep ==
  /\ ~HandshakeRunning
  /\ PumpRunning
  /\ UNCHANGED OutboundState

(* C27: the handshake is the only writer and reader of the connection      *)
(* until it completes and no pump exists before that; afterwards every     *)
(* write is a step of the outbound pump and every read a step of the       *)
(* inbound pump; only the outbound pump takes frames from the audio queue  *)
(* and only the inbound pump feeds the output queue; and no step of one    *)
(* pump changes anything the other pump owns.                              *)
C27_SingleOwner ==
  [][ /\ HandshakeRunning => NoPumpSpawned
      /\ WritesConnection =>
           \/ HandshakeRunning /\ UNCHANGED << outVars, inVars >>
           \/ OutboundStep /\ out_pc \in {"send_frame", "send_last", "send_finish"}
      /\ ReadsConnection =>
           \/ HandshakeRunning /\ UNCHANGED << send_log, pump_reads >>
           \/ InboundStep /\ in_pc = "read"
      /\ ConsumesAudio => OutboundStep /\ out_pc = "recv"
      /\ FeedsOutput => InboundStep /\ in_pc \in {"send", "send_terminal"}
      /\ (outVars' # outVars /\ inVars' # inVars) => HandshakeRunning
    ]_vars
C27_Witness ==
  /\ ~HandshakeRunning
  /\ Count(send_log, IsRealFrame) > 0
  /\ Count(send_log, IsStartSession) = 1
  /\ pump_reads > 0
  /\ forwarded # <<>>
  /\ out_pc = "send_frame"
  /\ in_pc = "send"

----------------------------------------------------------------------------
(* The bounded output queue                                                *)

\* the pump is at a forward, the queue is full and the receiver is alive
SuspendedOnForward ==
  /\ in_pc \in {"send", "send_terminal"}
  /\ ~rx_closed
  /\ Len(result_q) = ResultCapacity
ConsumerTakes == delivered' = Append(delivered, Head(result_q)) /\ result_q' = Tail(result_q)
ConsumerCloses == ~rx_closed /\ rx_closed'

(* C28: the output queue never holds more than its capacity; while the     *)
(* inbound pump is at a forward with the queue full it does nothing (no    *)
(* read, no forward, no change of position) until the consumer takes an    *)
(* event or closes the queue; and nothing accepted by the queue is dropped *)
(* or overwritten: while the receiver is alive the accepted events are     *)
(* exactly the delivered ones followed by the buffered ones, and a forward *)
(* only appends.                                                           *)
C28_BoundedNoDrop ==
  /\ [](Len(result_q) <= ResultCapacity)
  /\ [](~rx_closed => forwarded = delivered \o result_q)
  /\ [][ /\ SuspendedOnForward =>
              \/ ConsumerTakes
              \/ ConsumerCloses
              \/ UNCHANGED << inVars, last_read, stream_ended, forwarded, result_q >>
         /\ forwarded' # forwarded =>
              /\ Len(result_q) < ResultCapacity
              /\ result_q' = Append(result_q, response)
              /\ forwarded' = Append(forwarded, response)
       ]_vars
C28_Witness ==
  /\ SuspendedOnForward
  /\ delivered # <<>>
  /\ response # result_q[Len(result_q)]

----------------------------------------------------------------------------

\* what parse_response did with a packet_number member that is no integer
NonIntegerPacketNumberIsDefault ==
  (Returned /\ ReachesDocument /\ parsed.response_type = "Heartbeat"
     /\ PacketNumberMember.t \notin {"none", "int"})
    => parsed.packet_number = DEFAULT_PACKET_NUMBER

(* C29: the packet_number of a Heartbeat event equals the integer          *)
(* extra.packet_number of the document, for every integer the member can   *)
(* hold as a 64-bit number, and is -1 when the member is not an integer.   *)
C29_AsStated ==
  /\ (Returned /\ ReachesDocument /\ parsed.response_type = "Heartbeat"
        /\ PacketNumberMember.t = "int")
       => Widen(parsed.packet_number) = PacketNumberMember.limbs
  /\ NonIntegerPacketNumberIsDefault

----------------------------------------------------------------------------
(* The outbound pump after the inbound pump has ended                      *)

InboundTerminated == in_pc = "done"
\* the latest write on the connection, made by this step
Written == send_log'[Len(send_log')]
WroteOne == Len(send_log') = Len(send_log) + 1
\* no step the outbound pump is waiting to take is held back
OutboundNotHeldBack ==
  /\ out_pc = "spawned" => ENABLED OutStart
  /\ (out_pc = "recv" /\ (audio_q # <<>> \/ audio_closed)) => ENABLED OutRecv
  /\ out_pc = "send_frame" => ENABLED OutSendFrame
  /\ out_pc = "send_last" => ENABLED OutSendLast
  /\ out_pc = "send_finish" => ENABLED OutSendFinish
\* what the outbound pump's step does, by the position it is taken from
OutboundStepAsAlways ==
  /\ out_pc = "recv" =>
       IF audio_q # <<>>
       THEN out_pc' = "send_frame" /\ opus_frame' = Head(audio_q)
            /\ audio_q' = Tail(audio_q)
       ELSE audio_closed
            /\ out_pc' = (IF frame_index > 0 THEN "send_last" ELSE "done")
  /\ out_pc = "send_frame" =>
       /\ WroteOne /\ IsRealFrame(Written) /\ Written.msg.audio_data = opus_frame
       /\ Written.ok => out_pc' = "recv" /\ frame_index' = frame_index + 1
  /\ out_pc = "send_last" =>
       WroteOne /\ IsLastFrame(Written) /\ out_pc' = "send_finish"
  /\ out_pc = "send_finish" =>
       WroteOne /\ Written.msg.method_name = "FinishSession" /\ out_pc' = "done"

(* C30: once the inbound pump has terminated, whatever made it terminate,  *)
(* no step of the outbound pump is held back, and every step the outbound  *)
(* pump takes is the one it would take otherwise: it takes the next        *)
(* buffered frame, transmits it as a TaskRequest and continues while the   *)
(* send succeeds, and on closure of the audio queue after at least one     *)
(* frame it sends Last and then FinishSession.                             *)
C30_OutboundUnaffected ==
  /\ [](InboundTerminated => OutboundNotHeldBack)
  /\ [][(InboundTerminated /\ out_pc' # out_pc) => OutboundStepAsAlways]_vars
C30_Witness ==
  /\ InboundTerminated
  /\ out_pc = "recv"
  /\ audio_q # <<>>
  /\ frame_index > 0
  /\ ~audio_closed

----------------------------------------------------------------------------
(* The end of the result channel                                           *)

InboundEnded == in_pc = "done"

(* C31: once the inbound pump has terminated, for whatever reason, no      *)
(* sender of the output queue is left, so a caller that holds the receiver *)
(* and has drained the queue can observe end-of-stream at once; and the    *)
(* caller observes end-of-stream only after the pump has terminated and    *)
(* only with everything accepted by the queue delivered.                   *)
C31_QueueClosedAtPumpEnd ==
  /\ InboundEnded => SenderHandles = 0
  /\ (InboundEnded /\ ~rx_closed /\ ~rx_ended /\ result_q = <<>>)
       => ENABLED ConsumerRecvNone
  /\ rx_ended => (InboundEnded /\ delivered = forwarded)
C31_Witness ==
  /\ rx_ended
  /\ delivered # <<>>
  /\ Terminal(delivered[Len(delivered)])

----------------------------------------------------------------------------
(* What the caller receives                                                *)

\* the events parse_response makes of the binary messages of a stream
RECURSIVE Classified(_)
Classified(s) ==
  IF s = <<>> THEN <<>>
  ELSE (IF Head(s).kind = "binary" THEN << parse_response(Head(s).data) >>
        ELSE <<>>) \o Classified(Tail(s))
NotHeartbeat(e) == e.response_type # "Heartbeat"
TerminalPositions(es) == {i \in 1..Len(es) : Terminal(es[i])}
FirstTerminal(es) == CHOOSE i \in TerminalPositions(es) :
                       \A j \in TerminalPositions(es) : i <= j
UpToFirstTerminal(es) ==
  IF TerminalPositions(es) = {} THEN es ELSE SubSeq(es, 1, FirstTerminal(es))
ExpectedEvents(s) == UpToFirstTerminal(SelectSeq(Classified(s), NotHeartbeat))
\* everything the server sends during Streaming
TheStream == IF stream_ended THEN arrived ELSE arrived \o wire
IsPrefix(a, b) == Len(a) <= Len(b) /\ a = SubSeq(b, 1, Len(a))
\* the event the pump is about to forward
PendingForward ==
  IF in_pc \in {"send", "send_terminal"} THEN << response >> ELSE <<>>

----------------------------------------------------------------------------
(* Consistency of the fields of an event                                   *)

WithDocument == {"Heartbeat", "VadStart", "InterimResult", "FinalResult"}
WithText == {"InterimResult", "FinalResult"}

(* C33: in every event that parse_response returns, is_final is true       *)
(* exactly for FinalResult, vad_start exactly for VadStart, error_msg is   *)
(* non-empty only for Error, text only for InterimResult or FinalResult,   *)
(* packet_number differs from -1 only for Heartbeat, and the raw document  *)
(* is present exactly for Heartbeat, VadStart, InterimResult, FinalResult. *)
C33_EventFieldsConsistent ==
  Returned =>
    /\ parsed.is_final <=> parsed.response_type = "FinalResult"
    /\ parsed.vad_start <=> parsed.response_type = "VadStart"
    /\ parsed.error_msg # "" => parsed.response_type = "Error"
    /\ parsed.text # "" => parsed.response_type \in WithText
    /\ parsed.packet_number # DEFAULT_PACKET_NUMBER
         => parsed.response_type = "Heartbeat"
    /\ parsed.raw_json # JNone <=> parsed.response_type \in WithDocument
C33_Witness ==
  /\ Returned
  /\ parsed.response_type = "FinalResult"
  /\ parsed.text # ""
  /\ parsed.raw_json = TheDocument

----------------------------------------------------------------------------
(* A failed call of encode and the calls after it                          *)

InsufficientSamples(call) ==
  call.result.status = "err" /\ call.result.error = "Not enough samples"
NotInsufficient(call) == ~InsufficientSamples(call)
\* the calls of the log with the failed ones taken out
WithoutFailedCalls == SelectSeq(encode_log, NotInsufficient)
\* encode applied to the inputs of the calls, one after the other
RECURSIVE Replay(_, _)
Replay(enc, calls) ==
  IF calls = <<>> THEN [encoder |-> enc, results |-> <<>>]
  ELSE LET first == encode(enc, Head(calls).pcm_data)
           rest == Replay(first.encoder, Tail(calls))
       IN [ encoder |-> rest.encoder,
            results |-> << first.result >> \o rest.results ]
ResultsOf(calls) == [i \in 1..Len(calls) |-> calls[i].result]
FreshEncoder == OpusEncoder_new(new_args.sample_rate, new_args.channels)
AddsFailedCall ==
  /\ Len(encode_log') = Len(encode_log) + 1
  /\ InsufficientSamples(encode_log'[Len(encode_log')])

(* C34: a call of encode that fails for want of samples leaves the encoder *)
(* as it was, and the calls that did not fail returned, and left the       *)
(* encoder in, exactly what the same calls return on a fresh encoder that  *)
(* never saw the failed ones.                                              *)
C34_FailedCallLeavesNoTrace ==
  /\ [][AddsFailedCall => encoder' = encoder]_vars
  /\ [](encoder.status = "ok" =>
          LET replay == Replay(FreshEncoder, WithoutFailedCalls)
          IN /\ replay.results = ResultsOf(WithoutFailedCalls)
             /\ replay.encoder = encoder)
C34_Witness ==
  /\ encoder.status = "ok"
  /\ Len(encode_log) = MaxEncodeCalls
  /\ InsufficientSamples(encode_log[1])
  /\ encode_log[1].pcm_data.bytes > 0
  /\ encode_log[Len(encode_log)].result.status = "ok"
  /\ encode_log[Len(encode_log)].result.output[1].position = 1

----------------------------------------------------------------------------
(* The hotkey trigger                                                      *)

DoubleTapMode == HotkeyMode(hotkey_config) = "DoubleTap"
ComboMode == HotkeyMode(hotkey_config) = "Combo"
\* the remembered key event of whichever detector is in use
Remembered ==
  IF use_keyboard_hook(hotkey_config) THEN last_release ELSE last_press_time
\* the i-th handled key event came within the interval after a remembered one
CompletesPair(i) ==
  /\ i > 1
  /\ ~handled[i - 1].callback
  /\ handled[i].at - handled[i - 1].at <= hotkey_config.double_tap_interval

(* C35: in double-tap mode a handled key event invokes the callback        *)
(* exactly when the previous handled event is still remembered (it did not *)
(* itself trigger) and lies no more than double_tap_interval back; a       *)
(* trigger clears the remembered event and any other tap becomes the       *)
(* remembered event. In combo mode every handled event invokes it.         *)
C35_DoubleTapTriggers ==
  /\ DoubleTapMode =>
       /\ \A i \in 1..Len(handled) : handled[i].callback <=> CompletesPair(i)
       /\ Remembered =
            IF handled = <<>> \/ handled[Len(handled)].callback THEN NoInstant
            ELSE SomeInstant(handled[Len(handled)].at)
  /\ ComboMode =>
       /\ \A i \in 1..Len(handled) : handled[i].callback
       /\ Len(handled) = keys_sent - hotkey_events
C35_Witness ==
  /\ DoubleTapMode
  /\ Len(handled) = 4
  /\ ~handled[1].callback /\ handled[2].callback
  /\ ~handled[3].callback /\ handled[3].at - handled[2].at <= hotkey_config.double_tap_interval
  /\ handled[4].callback
  /\ handled[4].at > handled[3].at

(* C36: the callback is never invoked while the manager is inactive.       *)
C36_AsStated ==
  \A i \in 1..Len(handled) : handled[i].callback => handled[i].active

-----------------------------------------------------------------------------
\* ---- Start/stop requests (ui/system_tray.rs run_app) ----
\* Three sources ask the voice controller to start or stop: the hotkey callback,
\* the tray menu's Start and Stop items, and the floating button's
\* ToggleRecording event.  Each request is a task spawned on the runtime that
\* takes the controller's lock, asks is_recording() and calls start() or stop()
\* on the guard.

MaxRequests == 3

Sources == {"hotkey", "menu_start", "menu_stop", "toggle"}

\* One spawned handler task: where it is, what is_recording() returned to it, and
\* how long the trace was when it was spawned.
Handler(source) == [source |-> source, pc |-> "lock", saw |-> FALSE, at |-> Len(ui_trace)]

\* The menu's Start item starts without asking is_recording().
after_check_MenuStartUnchecked(source, recording) ==
  CASE source \in {"hotkey", "toggle"} -> IF recording THEN "stop" ELSE "start"
    [] source = "menu_start" -> "start"
    [] source = "menu_stop" -> IF recording THEN "stop" ELSE "done"

\* What a handler does with the answer of is_recording(): the hotkey and the
\* toggle stop when recording and start otherwise; the menu's Start item starts
\* only when not recording, its Stop item stops only when recording.
after_check(source, recording) ==
  CASE source \in {"hotkey", "toggle"} -> IF recording THEN "stop" ELSE "start"
    [] source = "menu_start" -> IF ~recording THEN "start" ELSE "done"
    [] source = "menu_stop" -> IF recording THEN "stop" ELSE "done"

\* One entry of the trace: a call of the controller or a set_state of the button,
\* by which task, with is_recording as it was at that moment (for set_state, as
\* the call before it left it).
Call(op, t, ok) == [kind |-> "call", what |-> op, task |-> t, recording |-> is_recording, ok |-> ok]
SetState(state, t, recording) == [kind |-> "set", what |-> state, task |-> t, recording |-> recording, ok |-> TRUE]

\* VoiceController (business/voice_controller.rs): the controller records after
\* a start() that returned Ok and is as it was after one that returned Err; it
\* no longer records after a stop() that returned Ok, and may or may not after
\* one that returned Err.  Nothing but start() and stop() changes the answer of
\* is_recording().
VoiceController_start(recording, ok) == ok \/ recording
VoiceController_stop(recording, ok) == IF ok THEN {FALSE} ELSE {FALSE, recording}

VoiceInit ==
  /\ SessionInit
  /\ ParseIdle
  /\ EncoderIdle
  /\ CredentialIdle
  /\ DeliveryIdle
  /\ HotkeyIdle
  /\ VoiceIdle
  /\ ButtonIdle

\* The hotkey callback, a menu event or a ToggleRecording event spawns a handler.
SpawnHandler ==
  /\ Len(handlers) < MaxRequests
  /\ \E source \in Sources : handlers' = Append(handlers, Handler(source))
  /\ UNCHANGED << nonVoiceVars, sessionVars, controller_lock, is_recording, button_state, ui_trace >>

\* vc.lock().await returns the guard to one waiting handler.
AcquireLock ==
  /\ controller_lock = 0
  /\ \E t \in 1..Len(handlers) :
       /\ handlers[t].pc = "lock"
       /\ controller_lock' = t
       /\ handlers' = [handlers EXCEPT ![t].pc = "check"]
  /\ UNCHANGED << nonVoiceVars, sessionVars, is_recording, button_state, ui_trace >>

\* The handler asks is_recording() and goes on to start() or, after showing
\* Processing, to stop(); a menu handler with nothing to do drops the guard.
CheckRecording ==
  /\ controller_lock # 0
  /\ handlers[controller_lock].pc = "check"
  /\ LET t == controller_lock
         next == after_check(handlers[t].source, is_recording)
     IN /\ handlers' = [handlers EXCEPT ![t].pc = next, ![t].saw = is_recording]
        /\ IF next = "stop"
             THEN /\ button_state' = "Processing"
                  /\ ui_trace' = Append(ui_trace, SetState("Processing", t, is_recording))
             ELSE UNCHANGED << button_state, ui_trace >>
        /\ controller_lock' = IF next = "done" THEN 0 ELSE t
  /\ UNCHANGED << nonVoiceVars, sessionVars, is_recording >>

\* controller.start().await returns: on Ok the controller records and the
\* button shows Recording; on Err only the error is logged.
ControllerStart ==
  /\ controller_lock # 0
  /\ handlers[controller_lock].pc = "start"
  /\ LET t == controller_lock
     IN \E ok \in BOOLEAN :
          /\ is_recording' = VoiceController_start(is_recording, ok)
          /\ button_state' = IF ok THEN "Recording" ELSE button_state
          /\ ui_trace' = IF ok THEN ui_trace \o << Call("start", t, ok), SetState("Recording", t, TRUE) >>
                               ELSE Append(ui_trace, Call("start", t, ok))
          /\ handlers' = [handlers EXCEPT ![t].pc = "done"]
  /\ controller_lock' = 0
  /\ UNCHANGED << nonVoiceVars, sessionVars >>

\* controller.stop().await returns: the button shows Idle whatever the outcome.
ControllerStop ==
  /\ controller_lock # 0
  /\ handlers[controller_lock].pc = "stop"
  /\ LET t == controller_lock
     IN \E ok \in BOOLEAN : \E left \in VoiceController_stop(is_recording, ok) :
          /\ is_recording' = left
          /\ button_state' = "Idle"
          /\ ui_trace' = ui_trace \o << Call("stop", t, ok), SetState("Idle", t, left) >>
          /\ handlers' = [handlers EXCEPT ![t].pc = "done"]
  /\ controller_lock' = 0
  /\ UNCHANGED << nonVoiceVars, sessionVars >>

VoiceNext ==
  \/ SpawnHandler
  \/ AcquireLock
  \/ CheckRecording
  \/ ControllerStart
  \/ ControllerStop

VoiceSpec == VoiceInit /\ [][VoiceNext]_vars

\* ---- C37 ----
Calls == { i \in 1..Len(ui_trace) : ui_trace[i].kind = "call" }
Sets == { i \in 1..Len(ui_trace) : ui_trace[i].kind = "set" }
ActedBy(t) == { i \in 1..Len(ui_trace) : ui_trace[i].task = t }
InsideLock(t) == handlers[t].pc \in {"check", "start", "stop"}
AllSpawnedAtOnce == \A t \in 1..Len(handlers) : handlers[t].at = 0
DoneAs(t, source) == handlers[t].source = source /\ handlers[t].pc = "done"

-----------------------------------------------------------------------------
\* ---- Floating button (ui/floating_button.rs wnd_proc) ----
\* The window procedure handles the button's messages one at a time on the
\* window's thread.  WM_LBUTTONDOWN records the press and starts the 16 ms drag
\* timer; the timer's tick and WM_LBUTTONUP both look for the release.

MaxClicks == 2

CLICK_THRESHOLD == 5

\* Where the cursor can be: apart by less than the threshold on both axes, by
\* the threshold on one axis, or by the threshold on both.
Points == { [x |-> 0, y |-> 0], [x |-> 4, y |-> 4], [x |-> 5, y |-> 0], [x |-> 0, y |-> 5] }

abs(n) == IF n < 0 THEN -n ELSE n

\* dx < 5 && dy < 5
is_click(start, pt) ==
  /\ abs(pt.x - start.x) < CLICK_THRESHOLD
  /\ abs(pt.y - start.y) < CLICK_THRESHOLD

\* One handling that saw the button released: by the timer or by WM_LBUTTONUP,
\* whether a press was recorded, which press, the cursor then and now, and
\* whether ToggleRecording was sent.
Observation(by, sent) ==
  [by |-> by, recorded |-> MOUSE_DOWN, press |-> press_count,
   start |-> START_CURSOR, pt |-> cursor, sent |-> sent]

ButtonInit ==
  /\ SessionInit
  /\ ParseIdle
  /\ EncoderIdle
  /\ CredentialIdle
  /\ DeliveryIdle
  /\ HotkeyIdle
  /\ VoiceIdle
  /\ MOUSE_DOWN = FALSE
  /\ START_CURSOR = Origin
  /\ START_WIN = Origin
  /\ drag_timer = FALSE
  /\ cursor \in Points
  /\ window = Origin
  /\ lbutton = FALSE
  /\ mouse_queue = << >>
  /\ clicks = 0
  /\ press_count = 0
  /\ observations = << >>

\* The user moves the mouse.
MoveCursor ==
  /\ \E pt \in Points \ {cursor} : cursor' = pt
  /\ UNCHANGED << nonButtonVars, sessionVars, MOUSE_DOWN, START_CURSOR, START_WIN, drag_timer,
                  window, lbutton, mouse_queue, clicks, press_count, observations >>

\* The user presses the left button; the message is posted to this window when
\* the cursor is over it.
PressButton ==
  /\ ~lbutton
  /\ clicks < MaxClicks
  /\ lbutton' = TRUE
  /\ clicks' = clicks + 1
  /\ \E over \in BOOLEAN :
       mouse_queue' = IF over THEN Append(mouse_queue, "WM_LBUTTONDOWN") ELSE mouse_queue
  /\ UNCHANGED << nonButtonVars, sessionVars, MOUSE_DOWN, START_CURSOR, START_WIN, drag_timer,
                  cursor, window, press_count, observations >>

\* The user releases the left button; the window does not capture the mouse, so
\* the message reaches it only when the cursor is over it.
ReleaseButton ==
  /\ lbutton
  /\ lbutton' = FALSE
  /\ \E over \in BOOLEAN :
       mouse_queue' = IF over THEN Append(mouse_queue, "WM_LBUTTONUP") ELSE mouse_queue
  /\ UNCHANGED << nonButtonVars, sessionVars, MOUSE_DOWN, START_CURSOR, START_WIN, drag_timer,
                  cursor, window, clicks, press_count, observations >>

WM_LBUTTONDOWN ==
  /\ mouse_queue # << >>
  /\ Head(mouse_queue) = "WM_LBUTTONDOWN"
  /\ mouse_queue' = Tail(mouse_queue)
  /\ MOUSE_DOWN' = TRUE
  /\ START_CURSOR' = cursor
  /\ START_WIN' = window
  /\ drag_timer' = TRUE
  /\ press_count' = press_count + 1
  /\ UNCHANGED << nonButtonVars, sessionVars, cursor, window, lbutton, clicks, observations >>

\* The tick sees the release but leaves the press recorded.
WM_TIMER_LeavesMouseDown ==
  /\ drag_timer
  /\ IF MOUSE_DOWN
       THEN IF ~lbutton
              THEN /\ drag_timer' = FALSE
                   /\ observations' = Append(observations, Observation("WM_TIMER", is_click(START_CURSOR, cursor)))
                   /\ UNCHANGED << MOUSE_DOWN, window >>
              ELSE /\ window' = [x |-> START_WIN.x + (cursor.x - START_CURSOR.x),
                                 y |-> START_WIN.y + (cursor.y - START_CURSOR.y)]
                   /\ UNCHANGED << MOUSE_DOWN, drag_timer, observations >>
       ELSE UNCHANGED << MOUSE_DOWN, drag_timer, window, observations >>
  /\ UNCHANGED << nonButtonVars, sessionVars, START_CURSOR, START_WIN, cursor, lbutton,
                  mouse_queue, clicks, press_count >>

\* A tick of the drag timer: with a press recorded, a released button ends the
\* press and is a click when the cursor is near where it was pressed; a button
\* still down drags the window along with the cursor.
WM_TIMER ==
  /\ drag_timer
  /\ IF MOUSE_DOWN
       THEN IF ~lbutton
              THEN /\ MOUSE_DOWN' = FALSE
                   /\ drag_timer' = FALSE
                   /\ observations' = Append(observations, Observation("WM_TIMER", is_click(START_CURSOR, cursor)))
                   /\ UNCHANGED window
              ELSE /\ window' = [x |-> START_WIN.x + (cursor.x - START_CURSOR.x),
                                 y |-> START_WIN.y + (cursor.y - START_CURSOR.y)]
                   /\ UNCHANGED << MOUSE_DOWN, drag_timer, observations >>
       ELSE UNCHANGED << MOUSE_DOWN, drag_timer, window, observations >>
  /\ UNCHANGED << nonButtonVars, sessionVars, START_CURSOR, START_WIN, cursor, lbutton,
                  mouse_queue, clicks, press_count >>

WM_LBUTTONUP ==
  /\ mouse_queue # << >>
  /\ Head(mouse_queue) = "WM_LBUTTONUP"
  /\ mouse_queue' = Tail(mouse_queue)
  /\ IF MOUSE_DOWN
       THEN /\ MOUSE_DOWN' = FALSE
            /\ drag_timer' = FALSE
            /\ observations' = Append(observations, Observation("WM_LBUTTONUP", is_click(START_CURSOR, cursor)))
       ELSE /\ observations' = Append(observations, Observation("WM_LBUTTONUP", FALSE))
            /\ UNCHANGED << MOUSE_DOWN, drag_timer >>
  /\ UNCHANGED << nonButtonVars, sessionVars, START_CURSOR, START_WIN, cursor, window, lbutton,
                  clicks, press_count >>

ButtonNext ==
  \/ MoveCursor
  \/ PressButton
  \/ ReleaseButton
  \/ WM_LBUTTONDOWN
  \/ WM_TIMER
  \/ WM_LBUTTONUP

ButtonSpec == ButtonInit /\ [][ButtonNext]_vars

\* ---- C38 ----
Toggles == { i \in 1..Len(observations) : observations[i].sent }
TimerSawItFirst(i) ==
  /\ observations[i].by = "WM_TIMER" /\ observations[i].sent
  /\ observations[i + 1].by = "WM_LBUTTONUP" /\ observations[i + 1].press = observations[i].press

\* C38: every ToggleRecording event belongs to a recorded press, and no press
\* has two of them, whether the timer, WM_LBUTTONUP or both saw the release; the
\* event is sent exactly when the handling that first sees the release of a
\* recorded press finds the cursor less than 5 pixels from where the press was
\* recorded on both axes; a WM_LBUTTONUP with no press recorded sends nothing.
C38_OneToggleForAClick ==
  /\ \A i \in 1..Len(observations) :
       LET o == observations[i]
           dx == abs(o.pt.x - o.start.x)
           dy == abs(o.pt.y - o.start.y)
       IN /\ o.sent <=> (o.recorded /\ dx < 5 /\ dy < 5)
          /\ o.recorded => o.press \in 1..press_count
  /\ \A i, j \in Toggles : observations[i].press = observations[j].press => i = j
  /\ \A i, j \in 1..Len(observations) :
       observations[i].recorded /\ observations[j].recorded
         /\ observations[i].press = observations[j].press => i = j

\* The timer saw the release of the first press and sent the event, the
\* WM_LBUTTONUP of the same release then sent nothing; the second press was
\* released 5 pixels away on one axis and sent nothing.
C38_Witness ==
  /\ Len(observations) = 3
  /\ TimerSawItFirst(1)
  /\ ~observations[2].recorded /\ ~observations[2].sent
  /\ observations[3].recorded /\ observations[3].press = 2 /\ ~observations[3].sent
  /\ abs(observations[3].pt.x - observations[3].start.x) = 5
  /\ abs(observations[3].pt.y - observations[3].start.y) < 5
  /\ Toggles = {1}

\* ---- C39 ----
CachedComplete ==
  store.kind = "some" /\ store.creds.device_id # "" /\ store.creds.token # ""
EnsureOrder == << "new_generated", "register_device", "get_asr_token", "save" >>
FileAtCall == ensure_log[1].file
LastStep == ensure_log[Len(ensure_log)]
EnsureFailed == ensure_pc = "returned" /\ ensure_result.status = "err"

\* C39: once ensure_credentials is called, with complete loaded credentials it
\* returns them at once, having registered nothing and written nothing;
\* otherwise its steps are, in this order, the fresh credentials, the
\* registration, the token and the save, each taken only after the one before
\* succeeded; the file is as it was at the call after every step but a
\* successful save; and a step that failed ends the call with an error, the
\* file still as it was at the call.
C39_EnsureOrder ==
  ensure_log # << >> =>
    IF CachedComplete
      THEN /\ ensure_log = << Step("cached", TRUE, cred_file) >>
           /\ ensure_pc = "returned"
           /\ ensure_result = Done(store.creds)
      ELSE /\ Len(ensure_log) <= Len(EnsureOrder)
           /\ \A i \in 1..Len(ensure_log) :
                /\ ensure_log[i].step = EnsureOrder[i]
                /\ i < Len(ensure_log) => ensure_log[i].ok
                /\ ~(ensure_log[i].step = "save" /\ ensure_log[i].ok)
                     => ensure_log[i].file = FileAtCall
           /\ cred_file = LastStep.file
           /\ ~LastStep.ok => EnsureFailed /\ cred_file = FileAtCall
           /\ EnsureSucceeded
                => /\ Len(ensure_log) = Len(EnsureOrder)
                   /\ cred_file = [kind |-> "json", creds |-> ensure_result.creds]

\* The file held credentials without a token; the registration succeeded, the
\* token could not be fetched: the call returned an error and the file is as it
\* was.
C39_Witness ==
  /\ store.kind = "some" /\ store.creds.device_id # "" /\ store.creds.token = ""
  /\ Len(ensure_log) = 3
  /\ ensure_log[2] = Step("register_device", TRUE, cred_file)
  /\ ensure_log[3] = Step("get_asr_token", FALSE, cred_file)
  /\ EnsureFailed
  /\ creds.device_id # ""
  /\ cred_file = [kind |-> "json", creds |-> store.creds]

====
